---- MODULE Spec2Model ----
(***************************************************************************)
(* Lab toolkit (multipage Streamlit application): the calculators of       *)
(* tabs/02 (Dilution Master), tabs/03 (Serial Dilution Planner) and        *)
(* tabs/04 (IC50 Planner) with the helpers of src/common.py.               *)
(*                                                                         *)
(* Python floats are modelled as exact decimal-scaled rationals            *)
(*   [n, d, e]  standing for  (n / d) * 10^e                               *)
(* kept in a canonical form, so that equality of numbers is equality of    *)
(* records and the unit factors 1e-3 .. 1e-12 stay inside TLC's integers.  *)
(***************************************************************************)
EXTENDS Integers, Sequences, FiniteSets, TLC

----------------------------------------------------------------------------
(* Arithmetic on the numbers the calculators compute with.                 *)

Abs(x) == IF x < 0 THEN 0 - x ELSE x

Sign(x) == IF x < 0 THEN 0 - 1 ELSE IF x = 0 THEN 0 ELSE 1

RECURSIVE GCD(_, _)
GCD(a, b) == IF b = 0 THEN a ELSE GCD(b, a % b)

RECURSIVE Pow10(_)
Pow10(k) == IF k = 0 THEN 1 ELSE 10 * Pow10(k - 1)

\* pull the factors of ten out of numerator and denominator, then make the
\* denominator coprime to ten
RECURSIVE Canon(_, _, _)
Canon(n, d, e) ==
    IF n = 0 THEN [n |-> 0, d |-> 1, e |-> 0]
    ELSE IF n % 10 = 0 THEN Canon(n \div 10, d, e + 1)
    ELSE IF d % 10 = 0 THEN Canon(n, d \div 10, e - 1)
    ELSE IF d % 2 = 0 THEN Canon(n * 5, d \div 2, e - 1)
    ELSE IF d % 5 = 0 THEN Canon(n * 2, d \div 5, e - 1)
    ELSE [n |-> n, d |-> d, e |-> e]

\* the number (n / d) * 10^e, d # 0, in canonical form
Mk(n, d, e) ==
    LET g == GCD(Abs(n), Abs(d))
        s == Sign(n) * Sign(d)
        c == Canon(Abs(n) \div g, Abs(d) \div g, e)
    IN  [n |-> s * c.n, d |-> c.d, e |-> c.e]

Int2R(k) == Mk(k, 1, 0)

Zero == Int2R(0)

One == Int2R(1)

RMul(a, b) ==
    LET g1 == GCD(Abs(a.n), b.d)
        g2 == GCD(Abs(b.n), a.d)
    IN  Mk((a.n \div g1) * (b.n \div g2), (a.d \div g2) * (b.d \div g1), a.e + b.e)

RNeg(a) == [n |-> 0 - a.n, d |-> a.d, e |-> a.e]

RAdd(a, b) ==
    IF a.n = 0 THEN b
    ELSE IF b.n = 0 THEN a
    ELSE LET m  == IF a.e < b.e THEN a.e ELSE b.e
             na == a.n * Pow10(a.e - m)
             nb == b.n * Pow10(b.e - m)
             g  == GCD(a.d, b.d)
         IN  Mk(na * (b.d \div g) + nb * (a.d \div g), (a.d \div g) * b.d, m)

RSub(a, b) == RAdd(a, RNeg(b))

\* a / b for b # 0 (callers test the divisor first, as Python raises
\* ZeroDivisionError there)
RDiv(a, b) == RMul(a, Mk(Sign(b.n) * b.d, Abs(b.n), 0 - b.e))

\* x * 10^g < y, for x, y > 0 and g >= 0, without leaving the integers
RECURSIVE ScaledLt(_, _, _)
ScaledLt(x, y, g) ==
    IF g = 0 THEN x < y
    ELSE IF x >= y THEN FALSE
    ELSE ScaledLt(10 * x, y, g - 1)

\* x * 10^g <= y, for x, y > 0 and g >= 0
RECURSIVE ScaledLe(_, _, _)
ScaledLe(x, y, g) ==
    IF g = 0 THEN x <= y
    ELSE IF x > y THEN FALSE
    ELSE ScaledLe(10 * x, y, g - 1)

\* a < b for a, b > 0
PosLt(a, b) ==
    LET x == a.n * b.d
        y == b.n * a.d
    IN  IF a.e >= b.e THEN ScaledLt(x, y, a.e - b.e)
        ELSE ~ScaledLe(y, x, b.e - a.e)

RLt(a, b) ==
    IF Sign(a.n) # Sign(b.n) THEN Sign(a.n) < Sign(b.n)
    ELSE IF a.n = 0 THEN FALSE
    ELSE IF a.n > 0 THEN PosLt(a, b)
    ELSE PosLt(RNeg(b), RNeg(a))

RLe(a, b) == a = b \/ RLt(a, b)

RGt(a, b) == RLt(b, a)

RGe(a, b) == RLe(b, a)

----------------------------------------------------------------------------
(* src/common.py: unit tables.  "u" stands for the micro sign.             *)

MOLARITY_CONVERSIONS ==
    [u \in {"M", "mM", "uM", "nM", "pM"} |->
        CASE u = "M"  -> Mk(1, 1, 0)
          [] u = "mM" -> Mk(1, 1, 0 - 3)
          [] u = "uM" -> Mk(1, 1, 0 - 6)
          [] u = "nM" -> Mk(1, 1, 0 - 9)
          [] u = "pM" -> Mk(1, 1, 0 - 12)]

VOLUME_CONVERSIONS ==
    [u \in {"L", "mL", "uL"} |->
        CASE u = "L"  -> Mk(1, 1, 0)
          [] u = "mL" -> Mk(1, 1, 0 - 3)
          [] u = "uL" -> Mk(1, 1, 0 - 6)]

MASS_VOL_CONVERSIONS ==
    [u \in {"g/L", "mg/L", "ug/L", "g/mL", "mg/mL", "ug/mL", "ng/mL", "ug/uL", "ng/uL"} |->
        CASE u = "g/L"   -> Mk(1, 1, 0)
          [] u = "mg/L"  -> Mk(1, 1, 0 - 3)
          [] u = "ug/L"  -> Mk(1, 1, 0 - 6)
          [] u = "g/mL"  -> Mk(1, 1, 3)
          [] u = "mg/mL" -> Mk(1, 1, 0)
          [] u = "ug/mL" -> Mk(1, 1, 0 - 3)
          [] u = "ng/mL" -> Mk(1, 1, 0 - 6)
          [] u = "ug/uL" -> Mk(1, 1, 0)
          [] u = "ng/uL" -> Mk(1, 1, 0 - 3)]

ALL_CONC_UNITS == DOMAIN MOLARITY_CONVERSIONS \cup DOMAIN MASS_VOL_CONVERSIONS

\* litres to microlitres: the "* 1e6" of the handlers
ToUl(v) == RMul(v, Mk(1, 1, 6))

----------------------------------------------------------------------------
(* What a handler run leaves on the page: the st.* elements in the order   *)
(* they are emitted.  An element carries the numbers its text interpolates *)
(* (vals), the formatted concentrations it interpolates (fmts) and, for a  *)
(* dataframe or a list of protocol steps, its rows.  A number rendered     *)
(* with a format such as ,.2f or .4g is kept as the number rendered.       *)

ElF(kind, tag, vals, fmts, rows) ==
    [kind |-> kind, tag |-> tag, vals |-> vals, fmts |-> fmts, rows |-> rows]

El(kind, tag, vals) == ElF(kind, tag, vals, <<>>, <<>>)

Table(tag, rows) == ElF("dataframe", tag, <<>>, <<>>, rows)

\* a row of a protocol table: Task/Step, Action (verb, amount, unit), Source,
\* Destination.  A name is a pair <<text, number>>: <<"Tube", 3>> is "Tube 3",
\* and the number is 0 where the text carries none.
RowI(task, verb, amount, unit, source, dest) ==
    [Task |-> task, Verb |-> verb, Amount |-> amount, Unit |-> unit,
     Source |-> source, Destination |-> dest]

Row(task, verb, amount, unit, source, dest) ==
    RowI(<<task, 0>>, verb, amount, unit, <<source, 0>>, <<dest, 0>>)

\* the outcome of one run of a handler: it returned normally after a
\* complete result ("ok"), returned early after a message ("rejected"), or
\* an exception escaped ("exception", exc names it)
Outcome(status, exc, page) == [status |-> status, exc |-> exc, page |-> page]

----------------------------------------------------------------------------
(* tabs/02 Dilution Master: the body of "Calculate Dilution".              *)

\* DMTwoStep with the second stage diluting by the whole dilution factor
DMTwoStep_SecondStageFullFactor(final_vol_base, dilution_factor) ==
    LET factor1             == Int2R(100)
        intermediate_vol_L  == Mk(1, 1, 0 - 3)
        stock_for_inter_L   == RDiv(intermediate_vol_L, factor1)
        diluent_for_inter_L == RSub(intermediate_vol_L, stock_for_inter_L)
        factor2             == dilution_factor
        stock_for_final_L   == RDiv(final_vol_base, factor2)
        diluent_for_final_L == RSub(final_vol_base, stock_for_final_L)
    IN  [rows |-> << Row("Make Intermediate Stock", "Transfer", ToUl(stock_for_inter_L), "uL", "Main Stock", "Intermediate Tube"),
                     Row("Make Intermediate Stock", "Add", ToUl(diluent_for_inter_L), "uL", "solvent", "Intermediate Tube"),
                     Row("Make Final Solution", "Transfer", ToUl(stock_for_final_L), "uL", "Intermediate Stock", "Final Tube"),
                     Row("Make Final Solution", "Add", ToUl(diluent_for_final_L), "uL", "solvent", "Final Tube") >>,
         page |-> << El("warning", "Large dilution factor detected", <<>>),
                     El("markdown", "Step 1: Prepare a 1:100 Intermediate Stock", <<>>),
                     El("success", "intermediate stock", <<ToUl(stock_for_inter_L), ToUl(diluent_for_inter_L)>>),
                     El("markdown", "Step 2: Prepare Final Solution", <<>>),
                     El("success", "final solution", <<ToUl(stock_for_final_L), ToUl(diluent_for_final_L)>>) >>]

\* DMTwoStep with the final tube filled up with the whole final volume
DMTwoStep_FinalDiluentNotReduced(final_vol_base, dilution_factor) ==
    LET factor1             == Int2R(100)
        intermediate_vol_L  == Mk(1, 1, 0 - 3)
        stock_for_inter_L   == RDiv(intermediate_vol_L, factor1)
        diluent_for_inter_L == RSub(intermediate_vol_L, stock_for_inter_L)
        factor2             == RDiv(dilution_factor, factor1)
        stock_for_final_L   == RDiv(final_vol_base, factor2)
        diluent_for_final_L == final_vol_base
    IN  [rows |-> << Row("Make Intermediate Stock", "Transfer", ToUl(stock_for_inter_L), "uL", "Main Stock", "Intermediate Tube"),
                     Row("Make Intermediate Stock", "Add", ToUl(diluent_for_inter_L), "uL", "solvent", "Intermediate Tube"),
                     Row("Make Final Solution", "Transfer", ToUl(stock_for_final_L), "uL", "Intermediate Stock", "Final Tube"),
                     Row("Make Final Solution", "Add", ToUl(diluent_for_final_L), "uL", "solvent", "Final Tube") >>,
         page |-> << El("warning", "Large dilution factor detected", <<>>),
                     El("markdown", "Step 1: Prepare a 1:100 Intermediate Stock", <<>>),
                     El("success", "intermediate stock", <<ToUl(stock_for_inter_L), ToUl(diluent_for_inter_L)>>),
                     El("markdown", "Step 2: Prepare Final Solution", <<>>),
                     El("success", "final solution", <<ToUl(stock_for_final_L), ToUl(diluent_for_final_L)>>) >>]

\* lines 115-134: the two-step protocol for a large dilution factor
DMTwoStep(final_vol_base, dilution_factor) ==
    LET factor1             == Int2R(100)
        intermediate_vol_L  == Mk(1, 1, 0 - 3)
        stock_for_inter_L   == RDiv(intermediate_vol_L, factor1)
        diluent_for_inter_L == RSub(intermediate_vol_L, stock_for_inter_L)
        factor2             == RDiv(dilution_factor, factor1)
        stock_for_final_L   == RDiv(final_vol_base, factor2)
        diluent_for_final_L == RSub(final_vol_base, stock_for_final_L)
    IN  [rows |-> << Row("Make Intermediate Stock", "Transfer", ToUl(stock_for_inter_L), "uL", "Main Stock", "Intermediate Tube"),
                     Row("Make Intermediate Stock", "Add", ToUl(diluent_for_inter_L), "uL", "solvent", "Intermediate Tube"),
                     Row("Make Final Solution", "Transfer", ToUl(stock_for_final_L), "uL", "Intermediate Stock", "Final Tube"),
                     Row("Make Final Solution", "Add", ToUl(diluent_for_final_L), "uL", "solvent", "Final Tube") >>,
         page |-> << El("warning", "Large dilution factor detected", <<>>),
                     El("markdown", "Step 1: Prepare a 1:100 Intermediate Stock", <<>>),
                     El("success", "intermediate stock", <<ToUl(stock_for_inter_L), ToUl(diluent_for_inter_L)>>),
                     El("markdown", "Step 2: Prepare Final Solution", <<>>),
                     El("success", "final solution", <<ToUl(stock_for_final_L), ToUl(diluent_for_final_L)>>) >>]

\* DMDirect with the diluent not reduced by the stock volume
DMDirect_NoSubtraction(stock_base, target_base, final_vol_base) ==
    LET stock_vol_needed_base   == RDiv(RMul(target_base, final_vol_base), stock_base)
        diluent_vol_needed_base == final_vol_base
        stock_vol_ul            == ToUl(stock_vol_needed_base)
        diluent_vol_ul          == ToUl(diluent_vol_needed_base)
    IN  [rows |-> << Row("Final Dilution", "Transfer", stock_vol_ul, "uL", "Main Stock", "Final Tube"),
                     Row("Final Dilution", "Add", diluent_vol_ul, "uL", "solvent", "Final Tube") >>,
         page |-> << El("success", "direct dilution", <<stock_vol_ul, diluent_vol_ul>>) >>]

\* lines 146-159: the direct protocol
DMDirect(stock_base, target_base, final_vol_base) ==
    LET stock_vol_needed_base   == RDiv(RMul(target_base, final_vol_base), stock_base)
        diluent_vol_needed_base == RSub(final_vol_base, stock_vol_needed_base)
        stock_vol_ul            == ToUl(stock_vol_needed_base)
        diluent_vol_ul          == ToUl(diluent_vol_needed_base)
    IN  [rows |-> << Row("Final Dilution", "Transfer", stock_vol_ul, "uL", "Main Stock", "Final Tube"),
                     Row("Final Dilution", "Add", diluent_vol_ul, "uL", "solvent", "Final Tube") >>,
         page |-> << El("success", "direct dilution", <<stock_vol_ul, diluent_vol_ul>>) >>]

\* DMDilute with the order check letting stock_base = target_base through
DMDilute_StrictOrderCheck(page0, rows0, stock_base, target_base, final_vol_base) ==
    IF RLt(stock_base, target_base)
    THEN Outcome("rejected", "", page0 \o
            <<El("error", "Target concentration must be lower than stock concentration.", <<>>)>>)
    ELSE IF RLe(stock_base, Zero) \/ RLe(target_base, Zero) \/ RLe(final_vol_base, Zero)
    THEN Outcome("rejected", "", page0 \o
            <<El("warning", "Concentrations and volume must be > 0.", <<>>)>>)
    ELSE LET dilution_factor == RDiv(stock_base, target_base)
             branch == IF RGt(dilution_factor, Int2R(100))
                       THEN DMTwoStep(final_vol_base, dilution_factor)
                       ELSE DMDirect(stock_base, target_base, final_vol_base)
         IN  Outcome("ok", "", page0
                \o <<El("info", "Total Dilution Factor Needed", <<dilution_factor>>)>>
                \o branch.page
                \o <<Table("dilution_calculation", rows0 \o branch.rows)>>)

\* lines 105-163: validation of the dilution step, the protocol and the table;
\* page0 and rows0 are what the solid-stock part emitted and collected before
DMDilute(page0, rows0, stock_base, target_base, final_vol_base) ==
    IF RLe(stock_base, target_base)
    THEN Outcome("rejected", "", page0 \o
            <<El("error", "Target concentration must be lower than stock concentration.", <<>>)>>)
    ELSE IF RLe(stock_base, Zero) \/ RLe(target_base, Zero) \/ RLe(final_vol_base, Zero)
    THEN Outcome("rejected", "", page0 \o
            <<El("warning", "Concentrations and volume must be > 0.", <<>>)>>)
    ELSE LET dilution_factor == RDiv(stock_base, target_base)
             branch == IF RGt(dilution_factor, Int2R(100))
                       THEN DMTwoStep(final_vol_base, dilution_factor)
                       ELSE DMDirect(stock_base, target_base, final_vol_base)
         IN  Outcome("ok", "", page0
                \o <<El("info", "Total Dilution Factor Needed", <<dilution_factor>>)>>
                \o branch.page
                \o <<Table("dilution_calculation", rows0 \o branch.rows)>>)

\* lines 88-103: Part 1 of a solid stock, then the dilution step
DMSolid(in, stock_base, target_base, final_vol_base) ==
    LET head == << El("markdown", "### Results", <<>>),
                   El("subheader", "Part 1: Prepare Stock from Solid", <<>>) >>
        stock_vol_base == RMul(in.stock_vol_val, VOLUME_CONVERSIONS[in.stock_vol_unit])
    IN  IF RLe(in.mw, Zero) \/ RLe(stock_base, Zero) \/ RLe(stock_vol_base, Zero)
        THEN Outcome("rejected", "", head \o
                <<El("warning", "MW, stock concentration, and volume must be > 0.", <<>>)>>)
        ELSE LET mass_needed_g  == RMul(RMul(stock_base, stock_vol_base), in.mw)
                 mass_needed_mg == RMul(mass_needed_g, Int2R(1000))
                 rows == << Row("Prepare Stock", "Weigh", mass_needed_mg, "mg", "reagent", "Stock Tube"),
                            Row("Prepare Stock", "Add", in.stock_vol_val, in.stock_vol_unit, "solvent", "Stock Tube") >>
                 page == head \o
                         << El("success", "create stock from solid", <<mass_needed_mg, in.stock_vol_val>>),
                            El("subheader", "Part 2: Dilute Stock to Final Concentration", <<>>) >>
             IN  DMDilute(page, rows, stock_base, target_base, final_vol_base)

\* the handler without the test of the molecular weight of lines 79-81
DilutionMasterCalculate_NoMWCheck(in) ==
    IF in.stock_conc_unit \notin DOMAIN MOLARITY_CONVERSIONS
    THEN Outcome("exception", "KeyError", <<>>)
    ELSE LET stock_base     == RMul(in.stock_conc_val, MOLARITY_CONVERSIONS[in.stock_conc_unit])
             target_base    == RMul(in.target_conc_val, MOLARITY_CONVERSIONS[in.target_conc_unit])
             final_vol_base == RMul(in.final_vol_val, VOLUME_CONVERSIONS[in.final_vol_unit])
         IN  IF in.stock_form = "Solid"
             THEN DMSolid(in, stock_base, target_base, final_vol_base)
             ELSE DMDilute(<<>>, <<>>, stock_base, target_base, final_vol_base)

\* lines 74-163
DilutionMasterCalculate(in) ==
    IF in.stock_conc_unit \notin DOMAIN MOLARITY_CONVERSIONS /\ RLe(in.mw, Zero)
    THEN Outcome("rejected", "", <<El("error", "Please provide a valid Molecular Weight (>0) for the liquid stock.", <<>>)>>)
    ELSE IF in.stock_conc_unit \notin DOMAIN MOLARITY_CONVERSIONS
    THEN \* line 82 looks the mass/volume unit up in MOLARITY_CONVERSIONS
         Outcome("exception", "KeyError", <<>>)
    ELSE LET stock_base     == RMul(in.stock_conc_val, MOLARITY_CONVERSIONS[in.stock_conc_unit])
             target_base    == RMul(in.target_conc_val, MOLARITY_CONVERSIONS[in.target_conc_unit])
             final_vol_base == RMul(in.final_vol_val, VOLUME_CONVERSIONS[in.final_vol_unit])
         IN  IF in.stock_form = "Solid"
             THEN DMSolid(in, stock_base, target_base, final_vol_base)
             ELSE DMDilute(<<>>, <<>>, stock_base, target_base, final_vol_base)

----------------------------------------------------------------------------
(* src/common.py: the formatters.  A formatted concentration is the        *)
(* magnitude, the separator and the unit of the string.                    *)

Fmt(mag, sep, unit) == [mag |-> mag, sep |-> sep, unit |-> unit]

\* format_molarity without the special case of lines 44-45
format_molarity_ZeroNotSpecial(molarity_in_M) ==
    IF RGe(molarity_in_M, One) THEN Fmt(molarity_in_M, "", "M")
    ELSE IF RGe(molarity_in_M, Mk(1, 1, 0 - 3)) THEN Fmt(RMul(molarity_in_M, Mk(1, 1, 3)), "", "mM")
    ELSE IF RGe(molarity_in_M, Mk(1, 1, 0 - 6)) THEN Fmt(RMul(molarity_in_M, Mk(1, 1, 6)), "", "uM")
    ELSE IF RGe(molarity_in_M, Mk(1, 1, 0 - 9)) THEN Fmt(RMul(molarity_in_M, Mk(1, 1, 9)), "", "nM")
    ELSE Fmt(RMul(molarity_in_M, Mk(1, 1, 12)), "", "pM")

\* format_molarity with the mM test strict
format_molarity_StrictThreshold(molarity_in_M) ==
    IF molarity_in_M = Zero THEN Fmt(Zero, "", "M")
    ELSE IF RGe(molarity_in_M, One) THEN Fmt(molarity_in_M, "", "M")
    ELSE IF RGt(molarity_in_M, Mk(1, 1, 0 - 3)) THEN Fmt(RMul(molarity_in_M, Mk(1, 1, 3)), "", "mM")
    ELSE IF RGe(molarity_in_M, Mk(1, 1, 0 - 6)) THEN Fmt(RMul(molarity_in_M, Mk(1, 1, 6)), "", "uM")
    ELSE IF RGe(molarity_in_M, Mk(1, 1, 0 - 9)) THEN Fmt(RMul(molarity_in_M, Mk(1, 1, 9)), "", "nM")
    ELSE Fmt(RMul(molarity_in_M, Mk(1, 1, 12)), "", "pM")

\* lines 42-58
format_molarity(molarity_in_M) ==
    IF molarity_in_M = Zero THEN Fmt(Zero, "", "M")
    ELSE IF RGe(molarity_in_M, One) THEN Fmt(molarity_in_M, "", "M")
    ELSE IF RGe(molarity_in_M, Mk(1, 1, 0 - 3)) THEN Fmt(RMul(molarity_in_M, Mk(1, 1, 3)), "", "mM")
    ELSE IF RGe(molarity_in_M, Mk(1, 1, 0 - 6)) THEN Fmt(RMul(molarity_in_M, Mk(1, 1, 6)), "", "uM")
    ELSE IF RGe(molarity_in_M, Mk(1, 1, 0 - 9)) THEN Fmt(RMul(molarity_in_M, Mk(1, 1, 9)), "", "nM")
    ELSE Fmt(RMul(molarity_in_M, Mk(1, 1, 12)), "", "pM")

\* lines 60-76
format_mass_conc(conc_in_g_per_L) ==
    IF conc_in_g_per_L = Zero THEN Fmt(Zero, "", "g/L")
    ELSE IF RGe(conc_in_g_per_L, One) THEN Fmt(conc_in_g_per_L, "", "g/L")
    ELSE IF RGe(conc_in_g_per_L, Mk(1, 1, 0 - 3)) THEN Fmt(RMul(conc_in_g_per_L, Mk(1, 1, 3)), "", "mg/L")
    ELSE IF RGe(conc_in_g_per_L, Mk(1, 1, 0 - 6)) THEN Fmt(RMul(conc_in_g_per_L, Mk(1, 1, 6)), "", "ug/L")
    ELSE IF RGe(conc_in_g_per_L, Mk(1, 1, 0 - 9)) THEN Fmt(RMul(conc_in_g_per_L, Mk(1, 1, 9)), "", "ng/L")
    ELSE Fmt(RMul(conc_in_g_per_L, Mk(1, 1, 12)), "", "pg/L")

----------------------------------------------------------------------------
(* tabs/03 Serial Dilution Planner: the body of "Plan Dilution Series".    *)

\* the guard letting a factor of exactly 1 through
SDPFactorRejected_BelowOneOnly(dilution_factor) == RLt(dilution_factor, One)

\* line 44: the guard on the per-step factor
SDPFactorRejected(dilution_factor) == RLe(dilution_factor, One)

\* SDPVolumes with the total diluent counting the last tube like the others
SDPVolumes_TotalIgnoresLastTube(final_vol_base, dilution_factor, num_dilutions) ==
    LET transfer_vol_base             == RDiv(final_vol_base, RSub(dilution_factor, One))
        intermediate_vol_base         == RAdd(final_vol_base, transfer_vol_base)
        stock_for_intermediate_base   == RDiv(intermediate_vol_base, dilution_factor)
        diluent_for_intermediate_base == RSub(intermediate_vol_base, stock_for_intermediate_base)
        diluent_for_final_tube_base   == RSub(final_vol_base, RDiv(final_vol_base, dilution_factor))
        total_diluent_needed_base ==
            RMul(diluent_for_intermediate_base, Int2R(num_dilutions))
    IN  [transfer_vol             |-> transfer_vol_base,
         stock_for_intermediate   |-> stock_for_intermediate_base,
         diluent_for_intermediate |-> diluent_for_intermediate_base,
         diluent_for_final_tube   |-> diluent_for_final_tube_base,
         total_diluent_needed     |-> total_diluent_needed_base]

\* lines 48-63: the volumes of the series, in litres
SDPVolumes(final_vol_base, dilution_factor, num_dilutions) ==
    LET transfer_vol_base             == RDiv(final_vol_base, RSub(dilution_factor, One))
        intermediate_vol_base         == RAdd(final_vol_base, transfer_vol_base)
        stock_for_intermediate_base   == RDiv(intermediate_vol_base, dilution_factor)
        diluent_for_intermediate_base == RSub(intermediate_vol_base, stock_for_intermediate_base)
        diluent_for_final_tube_base   == RSub(final_vol_base, RDiv(final_vol_base, dilution_factor))
        total_diluent_needed_base ==
            IF num_dilutions > 1
            THEN RAdd(RMul(diluent_for_intermediate_base, Int2R(num_dilutions - 1)),
                      diluent_for_final_tube_base)
            ELSE diluent_for_final_tube_base
    IN  [transfer_vol             |-> transfer_vol_base,
         stock_for_intermediate   |-> stock_for_intermediate_base,
         diluent_for_intermediate |-> diluent_for_intermediate_base,
         diluent_for_final_tube   |-> diluent_for_final_tube_base,
         total_diluent_needed     |-> total_diluent_needed_base]

\* lines 69-76: the action table
SDPProtocolData(v, num_dilutions) ==
    [i \in 1..(num_dilutions - 1) |->
        RowI(<<"Prepare Tube", i>>, "Add", ToUl(v.diluent_for_intermediate), "uL",
             <<"solvent", 0>>, <<"Tube", i>>)]
    \o << RowI(<<"Prepare Tube", num_dilutions>>, "Add", ToUl(v.diluent_for_final_tube), "uL",
               <<"solvent", 0>>, <<"Tube", num_dilutions>>),
          RowI(<<"Start Series", 0>>, "Transfer", ToUl(v.stock_for_intermediate), "uL",
               <<"Main Stock", 0>>, <<"Tube", 1>>) >>
    \o [i \in 1..(num_dilutions - 1) |->
        RowI(<<"Dilute", i + 1>>, "Transfer", ToUl(v.transfer_vol), "uL",
             <<"Tube", i>>, <<"Tube", i + 1>>)]

\* lines 83-93: the protocol text; step 7 discards the transfer volume from
\* the last tube
SDPProtocolText(in, v) ==
    ElF("info", "Full Protocol Text",
        << in.final_vol_val, ToUl(v.diluent_for_intermediate), ToUl(v.diluent_for_final_tube),
           ToUl(v.stock_for_intermediate), ToUl(v.transfer_vol) >>,
        <<>>,
        << RowI(<<"Discard", 7>>, "Discard", ToUl(v.transfer_vol), "uL",
                <<"Tube", in.num_dilutions>>, <<"waste", 0>>) >>)

\* lines 105-114: the rows of the concentration summary
RECURSIVE SDPSummaryRows(_, _, _, _, _, _, _)
SDPSummaryRows(k, num_dilutions, conc_raw, conc_base, dilution_factor, unit, is_molar) ==
    IF k > num_dilutions THEN <<>>
    ELSE LET current_conc_raw  == RDiv(conc_raw, dilution_factor)
             current_conc_base == RDiv(conc_base, dilution_factor)
         IN  << [Tube      |-> k,
                 Raw       |-> [val |-> current_conc_raw, unit |-> unit],
                 Formatted |-> IF is_molar THEN format_molarity(current_conc_base)
                               ELSE format_mass_conc(current_conc_base)] >>
             \o SDPSummaryRows(k + 1, num_dilutions, current_conc_raw, current_conc_base,
                               dilution_factor, unit, is_molar)

\* lines 43-116
SerialDilutionPlan(in) ==
    IF SDPFactorRejected(in.dilution_factor)
    THEN Outcome("rejected", "", <<El("error", "Dilution factor must be greater than 1.", <<>>)>>)
    ELSE IF RSub(in.dilution_factor, One) = Zero
    THEN Outcome("exception", "ZeroDivisionError", <<>>)
    ELSE LET final_vol_base == RMul(in.final_vol_val, VOLUME_CONVERSIONS[in.final_vol_unit])
             v == SDPVolumes(final_vol_base, in.dilution_factor, in.num_dilutions)
             page == << El("subheader", "Results", <<>>),
                        El("success", "Total Stock Needed | Total Solvent Needed",
                           <<ToUl(v.stock_for_intermediate), ToUl(v.total_diluent_needed)>>),
                        El("markdown", "Action Summary Table", <<>>),
                        Table("serial_dilution_protocol", SDPProtocolData(v, in.num_dilutions)),
                        SDPProtocolText(in, v),
                        El("markdown", "Concentration Summary", <<>>) >>
         IN  IF in.stock_conc_unit \in DOMAIN MOLARITY_CONVERSIONS
             THEN LET initial_conc_base == RMul(in.stock_conc_val, MOLARITY_CONVERSIONS[in.stock_conc_unit])
                  IN  Outcome("ok", "", page \o
                         <<Table("serial_dilution",
                                 SDPSummaryRows(1, in.num_dilutions, in.stock_conc_val, initial_conc_base,
                                                in.dilution_factor, in.stock_conc_unit, TRUE))>>)
             ELSE \* line 101 looks the mass/volume unit up in MOLARITY_CONVERSIONS
                  Outcome("exception", "KeyError", page)

----------------------------------------------------------------------------
(* tabs/04 IC50 Planner: the body of "Generate Protocol".                  *)

\* the guard letting a main stock equal to the highest concentration through
IC50OrderRejected_EqualAccepted(main_stock_base, highest_conc_base) == RLt(main_stock_base, highest_conc_base)

\* line 56: the guard on the order of main stock and highest concentration
IC50OrderRejected(main_stock_base, highest_conc_base) == RLe(main_stock_base, highest_conc_base)

\* one of the loops of lines 64-74: count points starting at current_conc,
\* each the previous one divided by factor
RECURSIVE IC50Decay(_, _, _)
IC50Decay(current_conc, factor, count) ==
    IF count = 0 THEN <<>>
    ELSE <<current_conc>> \o IC50Decay(RDiv(current_conc, factor), factor, count - 1)

\* the value of current_conc after such a loop
RECURSIVE IC50After(_, _, _)
IC50After(current_conc, factor, count) ==
    IF count = 0 THEN current_conc
    ELSE IC50After(RDiv(current_conc, factor), factor, count - 1)

\* the lists with the dense range starting over at the highest concentration
IC50Concs_DenseRestarts(highest_conc_base, in) ==
    LET after_dense == IC50After(highest_conc_base, in.dense_factor, in.num_dense)
    IN  [upper_sparse_concs |-> IC50Decay(highest_conc_base, in.sparse_factor, in.num_sparse_upper),
         dense_concs        |-> IC50Decay(highest_conc_base, in.dense_factor, in.num_dense),
         lower_sparse_concs |-> IC50Decay(after_dense, in.sparse_factor, in.num_sparse_lower)]

\* the lists with the lower sparse range starting over at the highest
\* concentration when the dense range is empty
IC50Concs_SkippedDenseRestarts(highest_conc_base, in) ==
    LET after_upper == IC50After(highest_conc_base, in.sparse_factor, in.num_sparse_upper)
        after_dense == IF in.num_dense = 0 THEN highest_conc_base
                       ELSE IC50After(after_upper, in.dense_factor, in.num_dense)
    IN  [upper_sparse_concs |-> IC50Decay(highest_conc_base, in.sparse_factor, in.num_sparse_upper),
         dense_concs        |-> IC50Decay(after_upper, in.dense_factor, in.num_dense),
         lower_sparse_concs |-> IC50Decay(after_dense, in.sparse_factor, in.num_sparse_lower)]

\* the lists with the dense range starting one dense step below the running
\* concentration
IC50Concs_DenseSkipsOneStep(highest_conc_base, in) ==
    LET after_upper == IC50After(highest_conc_base, in.sparse_factor, in.num_sparse_upper)
        dense_start == RDiv(after_upper, in.dense_factor)
        after_dense == IC50After(dense_start, in.dense_factor, in.num_dense)
    IN  [upper_sparse_concs |-> IC50Decay(highest_conc_base, in.sparse_factor, in.num_sparse_upper),
         dense_concs        |-> IC50Decay(dense_start, in.dense_factor, in.num_dense),
         lower_sparse_concs |-> IC50Decay(after_dense, in.sparse_factor, in.num_sparse_lower)]

\* lines 61-74: the three lists of concentrations
IC50Concs(highest_conc_base, in) ==
    LET after_upper == IC50After(highest_conc_base, in.sparse_factor, in.num_sparse_upper)
        after_dense == IC50After(after_upper, in.dense_factor, in.num_dense)
    IN  [upper_sparse_concs |-> IC50Decay(highest_conc_base, in.sparse_factor, in.num_sparse_upper),
         dense_concs        |-> IC50Decay(after_upper, in.dense_factor, in.num_dense),
         lower_sparse_concs |-> IC50Decay(after_dense, in.sparse_factor, in.num_sparse_lower)]

\* the range section with the intermediate stock inserted at 1 uL and below
generate_group_protocol_AtOrBelowMinimum(title, concs, factor, source_stock_conc, point_offset, final_vol_base) ==
    IF concs = <<>> THEN <<>>
    ELSE
    LET first            == point_offset + 1
        group_start_conc == concs[1]
        is_series        == Len(concs) > 1
        transfer_vol     == IF is_series /\ RGt(factor, One)
                            THEN RDiv(final_vol_base, RSub(factor, One)) ELSE Zero
        initial_tube_vol == RAdd(final_vol_base, transfer_vol)
        stock_vol_needed_base   == RDiv(RMul(group_start_conc, initial_tube_vol), source_stock_conc)
        stock_vol_needed_ul     == ToUl(stock_vol_needed_base)
        diluent_vol_needed_base == RSub(initial_tube_vol, stock_vol_needed_base)
        MIN_PIPETTE_VOL_UL      == One
        intermediate_stock_conc == RDiv(source_stock_conc, Int2R(10))
        stock_vol_from_inter_base   == RDiv(RMul(group_start_conc, initial_tube_vol), intermediate_stock_conc)
        diluent_vol_from_inter_base == RSub(initial_tube_vol, stock_vol_from_inter_base)
        partA ==
            IF RLe(stock_vol_needed_ul, MIN_PIPETTE_VOL_UL)
            THEN << El("warning", "Direct dilution requires too low a volume of main stock", <<stock_vol_needed_ul>>),
                    ElF("info", "Step A1: Create a 1:10 Intermediate Stock", <<>>,
                        <<format_molarity(intermediate_stock_conc)>>,
                        << RowI(<<"Step A1", first>>, "Take", Int2R(10), "uL",
                                <<"Main Stock", 0>>, <<"1:10 Intermediate Stock", first>>),
                           RowI(<<"Step A1", first>>, "Add", Int2R(90), "uL",
                                <<"solvent", 0>>, <<"1:10 Intermediate Stock", first>>) >>),
                    ElF("success", "Step A2: Prepare Tube for Point", <<>>,
                        <<format_molarity(group_start_conc)>>,
                        << RowI(<<"Step A2", first>>, "Take", ToUl(stock_vol_from_inter_base), "uL",
                                <<"1:10 Intermediate Stock", first>>, <<"Point", first>>),
                           RowI(<<"Step A2", first>>, "Add", ToUl(diluent_vol_from_inter_base), "uL",
                                <<"solvent", 0>>, <<"Point", first>>) >>) >>
            ELSE << ElF("success", "Direct dilution", <<>>,
                        <<format_molarity(group_start_conc), format_molarity(source_stock_conc)>>,
                        << RowI(<<"Part A", first>>, "Take", stock_vol_needed_ul, "uL",
                                <<"Main Stock", 0>>, <<"Point", first>>),
                           RowI(<<"Part A", first>>, "Add", ToUl(diluent_vol_needed_base), "uL",
                                <<"solvent", 0>>, <<"Point", first>>) >>) >>
        diluent_for_tubes == RSub(final_vol_base, RDiv(final_vol_base, factor))
        partB ==
            IF is_series
            THEN << El("markdown", "Part B: Perform Serial Dilution", <<factor>>),
                    ElF("info", "protocol_steps", <<ToUl(diluent_for_tubes), ToUl(transfer_vol)>>, <<>>,
                        [j \in 1..(Len(concs) - 1) |->
                            RowI(<<"Part B 2", first + j>>, "Add", ToUl(diluent_for_tubes), "uL",
                                 <<"solvent", 0>>, <<"Point", first + j>>)]
                        \o [j \in 1..(Len(concs) - 1) |->
                            RowI(<<"Part B 3-4", first + j>>, "Transfer", ToUl(transfer_vol), "uL",
                                 <<"Point", first + j - 1>>, <<"Point", first + j>>)]
                        \o << RowI(<<"Part B 5", point_offset + Len(concs)>>, "Discard", ToUl(transfer_vol), "uL",
                                   <<"Point", point_offset + Len(concs)>>, <<"waste", 0>>) >>) >>
            ELSE <<>>
    IN  << ElF("markdown", title, <<Int2R(first), Int2R(point_offset + Len(concs))>>, <<>>, <<>>),
           El("markdown", "Part A: Prepare Tube for Point", <<Int2R(first)>>) >>
        \o partA \o partB

\* lines 81-135: the protocol section of one range
generate_group_protocol(title, concs, factor, source_stock_conc, point_offset, final_vol_base) ==
    IF concs = <<>> THEN <<>>
    ELSE
    LET first            == point_offset + 1
        group_start_conc == concs[1]
        is_series        == Len(concs) > 1
        transfer_vol     == IF is_series /\ RGt(factor, One)
                            THEN RDiv(final_vol_base, RSub(factor, One)) ELSE Zero
        initial_tube_vol == RAdd(final_vol_base, transfer_vol)
        stock_vol_needed_base   == RDiv(RMul(group_start_conc, initial_tube_vol), source_stock_conc)
        stock_vol_needed_ul     == ToUl(stock_vol_needed_base)
        diluent_vol_needed_base == RSub(initial_tube_vol, stock_vol_needed_base)
        MIN_PIPETTE_VOL_UL      == One
        intermediate_stock_conc == RDiv(source_stock_conc, Int2R(10))
        stock_vol_from_inter_base   == RDiv(RMul(group_start_conc, initial_tube_vol), intermediate_stock_conc)
        diluent_vol_from_inter_base == RSub(initial_tube_vol, stock_vol_from_inter_base)
        partA ==
            IF RLt(stock_vol_needed_ul, MIN_PIPETTE_VOL_UL)
            THEN << El("warning", "Direct dilution requires too low a volume of main stock", <<stock_vol_needed_ul>>),
                    ElF("info", "Step A1: Create a 1:10 Intermediate Stock", <<>>,
                        <<format_molarity(intermediate_stock_conc)>>,
                        << RowI(<<"Step A1", first>>, "Take", Int2R(10), "uL",
                                <<"Main Stock", 0>>, <<"1:10 Intermediate Stock", first>>),
                           RowI(<<"Step A1", first>>, "Add", Int2R(90), "uL",
                                <<"solvent", 0>>, <<"1:10 Intermediate Stock", first>>) >>),
                    ElF("success", "Step A2: Prepare Tube for Point", <<>>,
                        <<format_molarity(group_start_conc)>>,
                        << RowI(<<"Step A2", first>>, "Take", ToUl(stock_vol_from_inter_base), "uL",
                                <<"1:10 Intermediate Stock", first>>, <<"Point", first>>),
                           RowI(<<"Step A2", first>>, "Add", ToUl(diluent_vol_from_inter_base), "uL",
                                <<"solvent", 0>>, <<"Point", first>>) >>) >>
            ELSE << ElF("success", "Direct dilution", <<>>,
                        <<format_molarity(group_start_conc), format_molarity(source_stock_conc)>>,
                        << RowI(<<"Part A", first>>, "Take", stock_vol_needed_ul, "uL",
                                <<"Main Stock", 0>>, <<"Point", first>>),
                           RowI(<<"Part A", first>>, "Add", ToUl(diluent_vol_needed_base), "uL",
                                <<"solvent", 0>>, <<"Point", first>>) >>) >>
        diluent_for_tubes == RSub(final_vol_base, RDiv(final_vol_base, factor))
        partB ==
            IF is_series
            THEN << El("markdown", "Part B: Perform Serial Dilution", <<factor>>),
                    ElF("info", "protocol_steps", <<ToUl(diluent_for_tubes), ToUl(transfer_vol)>>, <<>>,
                        [j \in 1..(Len(concs) - 1) |->
                            RowI(<<"Part B 2", first + j>>, "Add", ToUl(diluent_for_tubes), "uL",
                                 <<"solvent", 0>>, <<"Point", first + j>>)]
                        \o [j \in 1..(Len(concs) - 1) |->
                            RowI(<<"Part B 3-4", first + j>>, "Transfer", ToUl(transfer_vol), "uL",
                                 <<"Point", first + j - 1>>, <<"Point", first + j>>)]
                        \o << RowI(<<"Part B 5", point_offset + Len(concs)>>, "Discard", ToUl(transfer_vol), "uL",
                                   <<"Point", point_offset + Len(concs)>>, <<"waste", 0>>) >>) >>
            ELSE <<>>
    IN  << ElF("markdown", title, <<Int2R(first), Int2R(point_offset + Len(concs))>>, <<>>, <<>>),
           El("markdown", "Part A: Prepare Tube for Point", <<Int2R(first)>>) >>
        \o partA \o partB

\* lines 147-153: the rows of the final summary table
IC50SummaryRows(final_concentrations) ==
    [i \in 1..Len(final_concentrations) |->
        [Point |-> i, Formatted |-> format_molarity(final_concentrations[i])]]

\* the handler with the dense and the lower sparse range prepared from the
\* carry-over concentration (the concentration the range starts at), where
\* there is one, in place of the main stock
IC50Generate_CarryOverSource(in) ==
    LET main_stock_base   == RMul(in.stock_conc_val, MOLARITY_CONVERSIONS[in.stock_conc_unit])
        highest_conc_base == RMul(in.highest_conc_val, MOLARITY_CONVERSIONS[in.highest_conc_unit])
        final_vol_base    == RMul(in.final_vol_val, VOLUME_CONVERSIONS[in.final_vol_unit])
        carry(concs)      == IF concs = <<>> \/ concs[1] = Zero THEN main_stock_base ELSE concs[1]
    IN  IF IC50OrderRejected(main_stock_base, highest_conc_base)
        THEN Outcome("rejected", "",
                <<El("error", "The 'Highest Concentration' must be lower than the 'Main Stock Concentration'.", <<>>)>>)
        ELSE LET c == IC50Concs(highest_conc_base, in)
                 final_concentrations == c.upper_sparse_concs \o c.dense_concs \o c.lower_sparse_concs
                 offset_dense == Len(c.upper_sparse_concs)
                 offset_lower == offset_dense + Len(c.dense_concs)
             IN  Outcome("ok", "",
                    <<El("subheader", "Dilution Protocol", <<>>)>>
                    \o generate_group_protocol("Upper Sparse Range", c.upper_sparse_concs, in.sparse_factor,
                                               main_stock_base, 0, final_vol_base)
                    \o generate_group_protocol("Dense Range", c.dense_concs, in.dense_factor,
                                               carry(c.dense_concs), offset_dense, final_vol_base)
                    \o generate_group_protocol("Lower Sparse Range", c.lower_sparse_concs, in.sparse_factor,
                                               carry(c.lower_sparse_concs), offset_lower, final_vol_base)
                    \o << El("subheader", "Final Concentration Summary", <<>>),
                          Table("IC50_protocol_summary", IC50SummaryRows(final_concentrations)) >>)

\* lines 50-153
IC50Generate(in) ==
    LET main_stock_base   == RMul(in.stock_conc_val, MOLARITY_CONVERSIONS[in.stock_conc_unit])
        highest_conc_base == RMul(in.highest_conc_val, MOLARITY_CONVERSIONS[in.highest_conc_unit])
        final_vol_base    == RMul(in.final_vol_val, VOLUME_CONVERSIONS[in.final_vol_unit])
    IN  IF IC50OrderRejected(main_stock_base, highest_conc_base)
        THEN Outcome("rejected", "",
                <<El("error", "The 'Highest Concentration' must be lower than the 'Main Stock Concentration'.", <<>>)>>)
        ELSE LET c == IC50Concs(highest_conc_base, in)
                 final_concentrations == c.upper_sparse_concs \o c.dense_concs \o c.lower_sparse_concs
                 offset_dense == Len(c.upper_sparse_concs)
                 offset_lower == offset_dense + Len(c.dense_concs)
             IN  Outcome("ok", "",
                    <<El("subheader", "Dilution Protocol", <<>>)>>
                    \o generate_group_protocol("Upper Sparse Range", c.upper_sparse_concs, in.sparse_factor,
                                               main_stock_base, 0, final_vol_base)
                    \o generate_group_protocol("Dense Range", c.dense_concs, in.dense_factor,
                                               main_stock_base, offset_dense, final_vol_base)
                    \o generate_group_protocol("Lower Sparse Range", c.lower_sparse_concs, in.sparse_factor,
                                               main_stock_base, offset_lower, final_vol_base)
                    \o << El("subheader", "Final Concentration Summary", <<>>),
                          Table("IC50_protocol_summary", IC50SummaryRows(final_concentrations)) >>)

----------------------------------------------------------------------------
(* The widgets.  Each page declares its widgets before its button; the     *)
(* sets below are small samples of the widgets' ranges and contain the     *)
(* widgets' default values.  A value a handler tests for itself (a factor  *)
(* <= 1, a molecular weight <= 0, an empty range) is included although the *)
(* widget's minimum keeps a user from entering it.                         *)

MaxTubes == 3

MaxPoints == 2

\* the dense range is the long one (six points by default, two in a sparse range)
MaxDense == 3

R(n, d) == Mk(n, d, 0)

Min(a, b) == IF a < b THEN a ELSE b

\* tabs/02 lines 24-71
DMWidgets ==
    [stock_form      |-> {"Liquid", "Solid"},
     stock_conc_val  |-> {R(0, 1), R(1, 1), R(10, 1)},
     stock_conc_unit |-> {"M", "mM", "uM"} \cup DOMAIN MASS_VOL_CONVERSIONS,
     mw              |-> {R(0, 1), R(100, 1)},
     target_conc_val |-> {R(0, 1), R(1, 1), R(10, 1)},
     target_conc_unit |-> {"M", "mM", "uM", "nM"},
     final_vol_val   |-> {R(0, 1), R(1, 1)},
     final_vol_unit  |-> {"L", "mL", "uL"},
     stock_vol_val   |-> {R(0, 1), R(1, 1)},
     stock_vol_unit  |-> {"mL"}]

\* the widgets of the solid form offer molar stock units only (line 58); the
\* liquid form has no stock-volume widgets, its entry keeps the default
DMValid(w) ==
    /\ \A f \in DOMAIN DMWidgets : w[f] \in DMWidgets[f]
    /\ w.stock_form = "Solid" => w.stock_conc_unit \in DOMAIN MOLARITY_CONVERSIONS
    /\ w.stock_form = "Liquid" => w.stock_vol_val = R(1, 1)

\* the value= and index= arguments of the widgets of each form
DMDefaults(stock_form) ==
    [stock_form       |-> stock_form,
     stock_conc_val   |-> IF stock_form = "Liquid" THEN R(1, 1) ELSE R(10, 1),
     stock_conc_unit  |-> "mM",
     mw               |-> R(100, 1),
     target_conc_val  |-> R(10, 1),
     target_conc_unit |-> "nM",
     final_vol_val    |-> R(1, 1),
     final_vol_unit   |-> "mL",
     stock_vol_val    |-> R(1, 1),
     stock_vol_unit   |-> "mL"]

\* tabs/03 lines 29-40; mw is the optional molecular weight of line 40
SDPWidgets ==
    [stock_conc_val  |-> {R(0, 1), R(1, 1), R(10, 1)},
     stock_conc_unit |-> {"mM", "uM"} \cup DOMAIN MASS_VOL_CONVERSIONS,
     num_dilutions   |-> 1..MaxTubes,
     dilution_factor |-> {R(1, 2), R(1, 1), R(11, 10), R(2, 1), R(10, 1)},
     final_vol_val   |-> {R(0, 1), R(1, 1), R(1000, 1)},
     final_vol_unit  |-> {"mL", "uL"},
     mw              |-> {R(0, 1), R(100, 1)}]

SDPValid(w) == \A f \in DOMAIN SDPWidgets : w[f] \in SDPWidgets[f]

SDPDefaults ==
    [stock_conc_val  |-> R(10, 1),
     stock_conc_unit |-> "mM",
     num_dilutions   |-> Min(10, MaxTubes),
     dilution_factor |-> R(10, 1),
     final_vol_val   |-> R(1000, 1),
     final_vol_unit  |-> "uL",
     mw              |-> R(100, 1)]

\* tabs/04 lines 25-46
IC50Widgets ==
    [stock_conc_val    |-> {R(10, 1), R(25, 1)},
     stock_conc_unit   |-> {"mM", "uM"},
     highest_conc_val  |-> {R(0, 1), R(10, 1)},
     highest_conc_unit |-> {"mM", "uM"},
     final_vol_val     |-> {R(0, 1), R(1, 1), R(100, 1)},
     final_vol_unit    |-> {"mL", "uL"},
     num_sparse_upper  |-> 0..MaxPoints,
     num_dense         |-> 0..MaxDense,
     num_sparse_lower  |-> 0..MaxPoints,
     sparse_factor     |-> {R(2, 1), R(10, 1)},
     dense_factor      |-> {R(11, 10), R(2, 1)}]

IC50Valid(w) == \A f \in DOMAIN IC50Widgets : w[f] \in IC50Widgets[f]

IC50Defaults ==
    [stock_conc_val    |-> R(10, 1),
     stock_conc_unit   |-> "mM",
     highest_conc_val  |-> R(10, 1),
     highest_conc_unit |-> "uM",
     final_vol_val     |-> R(100, 1),
     final_vol_unit    |-> "uL",
     num_sparse_upper  |-> Min(2, MaxPoints),
     num_dense         |-> Min(6, MaxDense),
     num_sparse_lower  |-> Min(2, MaxPoints),
     sparse_factor     |-> R(10, 1),
     dense_factor      |-> R(2, 1)]

----------------------------------------------------------------------------
(* The reagent store: src/common.py load_reagents / save_reagents and the  *)
(* handlers of tabs/05 Reagent Manager.  A dictionary is the sequence of   *)
(* its entries in insertion order, as json.dump writes them; the data of   *)
(* an entry is a record whose fields are the keys of the stored object.    *)

Keys(d) == {d[i].name : i \in 1..Len(d)}

\* d[name]
DictGet(d, name) == d[CHOOSE i \in 1..Len(d) : d[i].name = name].data

\* d[name] = data: an existing key keeps its place, a new key goes last
DictSet(d, name, data) ==
    IF name \in Keys(d)
    THEN [i \in 1..Len(d) |-> IF d[i].name = name THEN [name |-> name, data |-> data] ELSE d[i]]
    ELSE Append(d, [name |-> name, data |-> data])

\* del d[name]
DictDel(d, name) ==
    LET Other(e) == e.name # name IN SelectSeq(d, Other)

\* reagents.json: absent, empty (opened for writing, nothing written yet),
\* or the JSON text of a dictionary
NoFile == [state |-> "missing", dict |-> <<>>]

EmptyFile == [state |-> "empty", dict |-> <<>>]

JsonFile(d) == [state |-> "json", dict |-> d]

\* common.py lines 24-35: no file, no content and a text that is no JSON all
\* give {}
load_reagents(file) ==
    IF file.state = "missing" THEN <<>>
    ELSE IF file.state = "empty" THEN <<>>
    ELSE IF file.state = "corrupt" THEN <<>>
    ELSE file.dict

\* common.py line 40: json.dump(reagents, f)
save_reagents(reagents) == JsonFile(reagents)

\* the form accepting a name that is already stored
SaveNewReagent_NoExistsCheck(reagents, name, mw, manufacturer) ==
    IF name = "" \/ mw <= 0
    THEN [saved |-> FALSE, message |-> "Reagent Name and a valid MW are required.", reagents |-> reagents]
    ELSE [saved |-> TRUE, message |-> "Saved",
          reagents |-> DictSet(reagents, name, [mw |-> mw, manufacturer |-> manufacturer])]

\* tabs/05 lines 20-29: "Save New Reagent"
SaveNewReagent(reagents, name, mw, manufacturer) ==
    IF name = "" \/ mw <= 0
    THEN [saved |-> FALSE, message |-> "Reagent Name and a valid MW are required.", reagents |-> reagents]
    ELSE IF name \in Keys(reagents)
    THEN [saved |-> FALSE, message |-> "Reagent already exists.", reagents |-> reagents]
    ELSE [saved |-> TRUE, message |-> "Saved",
          reagents |-> DictSet(reagents, name, [mw |-> mw, manufacturer |-> manufacturer])]

\* tabs/05 lines 49-53: "Update Reagent"; the new record is built from the
\* two widgets
UpdateReagent(reagents, reagent_to_edit, new_mw, new_mfr) ==
    [saved |-> TRUE, message |-> "Updated",
     reagents |-> DictSet(reagents, reagent_to_edit, [mw |-> new_mw, manufacturer |-> new_mfr])]

\* tabs/05 lines 57-61: "Delete Selected Reagent"
DeleteReagent(reagents, reagent_to_delete) ==
    [saved |-> TRUE, message |-> "Deleted", reagents |-> DictDel(reagents, reagent_to_delete)]

\* the browser sessions that have the Reagent Manager open
Sessions == {"s1", "s2"}

\* what the user enters: the name field may be left empty, the molecular
\* weight 0 is below the widget's minimum and tested by the handler itself
ReagentNames == {"A", "B"}

NewReagentInputs ==
    [name : ReagentNames \cup {""}, mw : {100}, manufacturer : {""}]
        \cup {[name |-> "A", mw |-> 0, manufacturer |-> ""]}

EditInputs == [new_mw : {150}, new_mfr : {"Acros"}]

\* the files the sessions may find: none, or one written earlier; a record may
\* carry extra string fields beside mw and manufacturer
StoredFiles ==
    { NoFile,
      JsonFile(<< [name |-> "A", data |-> [mw |-> 100, manufacturer |-> "Sigma", storage |-> "4C"]] >>),
      JsonFile(<< [name |-> "A", data |-> [mw |-> 100, manufacturer |-> "Sigma", storage |-> "4C"]],
                  [name |-> "B", data |-> [mw |-> 200, manufacturer |-> ""]] >>) }

\* no click is being handled
NoOp == [kind |-> "none"]

\* a session that never opened the page
Closed == [pc |-> "closed", reagents |-> <<>>, loaded |-> <<>>, op |-> NoOp, message |-> ""]

\* the page as a run of the script leaves it: the list of the reagents it loaded
Shown(reagents, op, message) ==
    [pc |-> "shown", reagents |-> reagents, loaded |-> reagents, op |-> op, message |-> message]

----------------------------------------------------------------------------
(* The application: one page at a time.  Streamlit reruns the page's       *)
(* script on every interaction; the results are emitted inside             *)
(* "if st.button(...)", so a rerun caused by a widget shows no result and  *)
(* a rerun caused by the button shows what the handler emits.              *)

VARIABLES
    tab,      \* the page shown
    inputs,   \* the values of its widgets
    outcome,  \* what the last rerun of its script emitted below the button
    earlier,      \* history: the result the last successful calculation of the page displayed
    reagent_file, \* the content of reagents.json
    session       \* the Reagent Manager in each browser session

vars == <<tab, inputs, outcome, earlier, reagent_file, session>>

\* the calculators write no reagent, and keep nothing of an earlier run
elsewhere == <<earlier, reagent_file, session>>

NoReagentManager ==
    /\ earlier = <<>>
    /\ reagent_file = NoFile
    /\ session = [s \in Sessions |-> Closed]

Idle == Outcome("idle", "", <<>>)

Init ==
    /\ tab = "Dilution Master"
    /\ inputs = DMDefaults("Liquid")
    /\ outcome = Idle
    /\ NoReagentManager

\* the user opens another page
OpenPage ==
    \E t \in {"Dilution Master", "Serial Dilution Planner", "IC50 Planner"} :
        /\ t # tab
        /\ tab' = t
        /\ inputs' = CASE t = "Dilution Master" -> DMDefaults("Liquid")
                       [] t = "Serial Dilution Planner" -> SDPDefaults
                       [] t = "IC50 Planner" -> IC50Defaults
        /\ outcome' = Idle
        /\ UNCHANGED elsewhere

\* the user changes one widget of the Dilution Master; choosing the other
\* stock form shows that form's widgets
SetDMWidget ==
    /\ tab = "Dilution Master"
    /\ \E f \in DOMAIN DMWidgets : \E v \in DMWidgets[f] :
        /\ v # inputs[f]
        /\ inputs' = IF f = "stock_form" THEN DMDefaults(v) ELSE [inputs EXCEPT ![f] = v]
        /\ DMValid(inputs')
    /\ outcome' = Idle
    /\ UNCHANGED <<tab, elsewhere>>

SetSDPWidget ==
    /\ tab = "Serial Dilution Planner"
    /\ \E f \in DOMAIN SDPWidgets : \E v \in SDPWidgets[f] :
        /\ v # inputs[f]
        /\ inputs' = [inputs EXCEPT ![f] = v]
        /\ SDPValid(inputs')
    /\ outcome' = Idle
    /\ UNCHANGED <<tab, elsewhere>>

SetIC50Widget ==
    /\ tab = "IC50 Planner"
    /\ \E f \in DOMAIN IC50Widgets : \E v \in IC50Widgets[f] :
        /\ v # inputs[f]
        /\ inputs' = [inputs EXCEPT ![f] = v]
        /\ IC50Valid(inputs')
    /\ outcome' = Idle
    /\ UNCHANGED <<tab, elsewhere>>

\* tabs/02: "Calculate Dilution"
CalculateDilution ==
    /\ tab = "Dilution Master"
    /\ outcome' = DilutionMasterCalculate(inputs)
    /\ UNCHANGED <<tab, inputs, elsewhere>>

\* tabs/03: "Plan Dilution Series"
PlanDilutionSeries ==
    /\ tab = "Serial Dilution Planner"
    /\ outcome' = SerialDilutionPlan(inputs)
    /\ UNCHANGED <<tab, inputs, elsewhere>>

\* tabs/04: "Generate Protocol"
GenerateProtocol ==
    /\ tab = "IC50 Planner"
    /\ outcome' = IC50Generate(inputs)
    /\ UNCHANGED <<tab, inputs, elsewhere>>

Next ==
    \/ OpenPage
    \/ SetDMWidget
    \/ SetSDPWidget
    \/ SetIC50Widget
    \/ CalculateDilution
    \/ PlanDilutionSeries
    \/ GenerateProtocol

Spec == Init /\ [][Next]_vars

----------------------------------------------------------------------------
(* Reading a page, and carrying out a protocol at the bench.               *)

\* the elements of the page with this tag
Els(tag) == {i \in 1..Len(outcome.page) : outcome.page[i].tag = tag}

Has(tag) == Els(tag) # {}

\* the rows of the element with this tag
RowsOf(tag) == outcome.page[CHOOSE i \in Els(tag) : TRUE].rows

\* the button was clicked and the page shows what the handler emitted
Clicked(t) == tab = t /\ outcome.status # "idle"

\* the concentration a formatted string stands for, in M
FmtValue(f) == RMul(f.mag, MOLARITY_CONVERSIONS[f.unit])

\* one instruction carried out: Amount moves from Source to Destination
\* ("Add" from the solvent, "Transfer"/"Take" from a stock or a tube,
\* "Discard" to the waste)
Pour(vol, r) ==
    [x \in DOMAIN vol |->
        IF x = r.Source /\ x # r.Destination THEN RSub(vol[x], r.Amount)
        ELSE IF x = r.Destination /\ x # r.Source THEN RAdd(vol[x], r.Amount)
        ELSE vol[x]]

\* the instructions rows[k..] carried out in order
RECURSIVE Execute(_, _, _)
Execute(rows, k, vol) ==
    IF k > Len(rows) THEN vol ELSE Execute(rows, k + 1, Pour(vol, rows[k]))

\* the volumes, in uL, every vessel holds after the instructions, all starting empty
Bench(rows) ==
    Execute(rows, 1,
            [x \in {rows[k].Source : k \in 1..Len(rows)} \cup {rows[k].Destination : k \in 1..Len(rows)}
                |-> Zero])

RECURSIVE PowR(_, _)
PowR(f, k) == IF k = 0 THEN One ELSE RMul(f, PowR(f, k - 1))

----------------------------------------------------------------------------
(* Serial Dilution Planner                                                 *)

SDP == "Serial Dilution Planner"

SDPFinalVolUl == ToUl(RMul(inputs.final_vol_val, VOLUME_CONVERSIONS[inputs.final_vol_unit]))

\* the action table followed by step 7 of the protocol text
SDPInstructions == RowsOf("serial_dilution_protocol") \o RowsOf("Full Protocol Text")

\* C1: carrying out the emitted protocol (diluent into tubes 1..N, stock into
\* tube 1, the transfers from tube i to tube i+1, the discard from tube N)
\* leaves every tube 1..N holding exactly the final volume V.
C1_EveryTubeHoldsFinalVolume ==
    (Clicked(SDP) /\ Has("serial_dilution_protocol")) =>
        \A i \in 1..inputs.num_dilutions :
            Bench(SDPInstructions)[<<"Tube", i>>] = SDPFinalVolUl

\* C2: for every stock concentration, factor F > 1 and tube count N the
\* concentration summary lists exactly the tubes 1..N, tube k at C_stock / F^k.
C2_SummaryListsGeometricSeries ==
    (Clicked(SDP) /\ RGt(inputs.dilution_factor, One)) =>
        /\ Has("serial_dilution")
        /\ LET rows == RowsOf("serial_dilution")
           IN  /\ Len(rows) = inputs.num_dilutions
               /\ \A k \in 1..Len(rows) :
                    /\ rows[k].Tube = k
                    /\ rows[k].Raw.val = RDiv(inputs.stock_conc_val, PowR(inputs.dilution_factor, k))
                    /\ rows[k].Raw.unit = inputs.stock_conc_unit

----------------------------------------------------------------------------
(* Dilution Master                                                         *)

DM == "Dilution Master"

DMMolar == inputs.stock_conc_unit \in DOMAIN MOLARITY_CONVERSIONS

\* stock_base, target_base and final_vol_base of a request with a molar stock unit
DMStockBase == RMul(inputs.stock_conc_val, MOLARITY_CONVERSIONS[inputs.stock_conc_unit])

DMTargetBase == RMul(inputs.target_conc_val, MOLARITY_CONVERSIONS[inputs.target_conc_unit])

DMFinalVolBase == RMul(inputs.final_vol_val, VOLUME_CONVERSIONS[inputs.final_vol_unit])

\* the solid-stock part of the request passes its own check, or there is none
DMPrepAccepted ==
    inputs.stock_form = "Solid" =>
        /\ RGt(inputs.mw, Zero)
        /\ RGt(DMStockBase, Zero)
        /\ RGt(RMul(inputs.stock_vol_val, VOLUME_CONVERSIONS[inputs.stock_vol_unit]), Zero)

DMFactorReported ==
    /\ Has("Total Dilution Factor Needed")
    /\ outcome.page[CHOOSE i \in Els("Total Dilution Factor Needed") : TRUE].vals
          = <<RDiv(DMStockBase, DMTargetBase)>>

\* the table shows the direct protocol: stock_vol_needed from the main stock
\* and diluent_vol_needed of solvent into the final tube
DMDirectVolumesReported ==
    LET rows == RowsOf("dilution_calculation")
        stock_vol_needed == RDiv(RMul(DMTargetBase, DMFinalVolBase), DMStockBase)
    IN  /\ Len(rows) >= 2
        /\ rows[Len(rows) - 1] =
              Row("Final Dilution", "Transfer", ToUl(stock_vol_needed), "uL", "Main Stock", "Final Tube")
        /\ rows[Len(rows)] =
              Row("Final Dilution", "Add", ToUl(RSub(DMFinalVolBase, stock_vol_needed)), "uL", "solvent", "Final Tube")

\* stock 1 M, target 10 mM, final volume 1 L
DMExampleRequest ==
    /\ inputs.stock_conc_val = R(1, 1) /\ inputs.stock_conc_unit = "M"
    /\ inputs.target_conc_val = R(10, 1) /\ inputs.target_conc_unit = "mM"
    /\ inputs.final_vol_val = R(1, 1) /\ inputs.final_vol_unit = "L"

\* factor 100, 10 mL of stock, 990 mL of diluent
DMExampleResult ==
    LET rows == RowsOf("dilution_calculation")
    IN  /\ outcome.page[CHOOSE i \in Els("Total Dilution Factor Needed") : TRUE].vals = <<Int2R(100)>>
        /\ rows[Len(rows) - 1].Amount = ToUl(Mk(10, 1, 0 - 3))
        /\ rows[Len(rows)].Amount = ToUl(Mk(990, 1, 0 - 3))

\* C3 as stated: every request that passes validation reports
\* dilution_factor = stock_base / target_base, stock_vol_needed =
\* target_base * final_volume_base / stock_base and diluent_vol_needed =
\* final_volume_base - stock_vol_needed.
C3_Original_EveryAcceptedRequestReportsDirectVolumes ==
    (Clicked(DM) /\ outcome.status = "ok") =>
        (DMFactorReported /\ DMDirectVolumesReported)

\* C3 amended: every request that passes validation reports dilution_factor =
\* stock_base / target_base; when that factor is at most 100 it reports
\* stock_vol_needed = target_base * final_volume_base / stock_base and
\* diluent_vol_needed = final_volume_base - stock_vol_needed (stock 1 M,
\* target 10 mM, final volume 1 L: factor 100, 10 mL stock, 990 mL diluent).
C3_AcceptedRequestReportsFactorAndDirectVolumes ==
    (Clicked(DM) /\ outcome.status = "ok") =>
        /\ DMFactorReported
        /\ RLe(RDiv(DMStockBase, DMTargetBase), Int2R(100)) => DMDirectVolumesReported
        /\ DMExampleRequest => DMExampleResult

C3_Witness ==
    /\ Clicked(DM) /\ outcome.status = "ok"
    /\ DMExampleRequest
    /\ DMDirectVolumesReported

\* the page shows nothing of a dilution: no factor, no protocol, no table
DMNoDilutionVolumes ==
    \A i \in 1..Len(outcome.page) :
        /\ outcome.page[i].kind # "dataframe"
        /\ outcome.page[i].tag \notin {"Total Dilution Factor Needed", "direct dilution",
                                       "intermediate stock", "final solution",
                                       "Large dilution factor detected"}

DMOrderError ==
    /\ outcome.status = "rejected"
    /\ outcome.page # <<>>
    /\ outcome.page[Len(outcome.page)] =
          El("error", "Target concentration must be lower than stock concentration.", <<>>)

ResultContent(el) == el.kind \in {"success", "info", "dataframe"}

\* C10: there is no partial failure: a rejected calculation shows no result
\* content at all, also a solid-form request whose stock preparation is valid
\* and whose dilution step is rejected.
C10_RejectionShowsNoResultContent ==
    outcome.status = "rejected" =>
        \A i \in 1..Len(outcome.page) : ~ResultContent(outcome.page[i])

\* C9: whenever the per-step factor F <= 1 the planner fails with the
\* invalid-parameter error and emits no protocol and no summary; it never
\* divides by F - 1 = 0.
C9_FactorAtMostOneIsRejected ==
    Clicked(SDP) =>
        /\ RLe(inputs.dilution_factor, One) =>
              outcome = Outcome("rejected", "",
                                <<El("error", "Dilution factor must be greater than 1.", <<>>)>>)
        /\ outcome.exc # "ZeroDivisionError"

C9_Witness ==
    /\ Clicked(SDP)
    /\ inputs.dilution_factor = One
    /\ outcome.status = "rejected"

----------------------------------------------------------------------------
(* IC50 Planner                                                            *)

IC50 == "IC50 Planner"

IC50MainStockBase == RMul(inputs.stock_conc_val, MOLARITY_CONVERSIONS[inputs.stock_conc_unit])

IC50HighestBase == RMul(inputs.highest_conc_val, MOLARITY_CONVERSIONS[inputs.highest_conc_unit])

IC50FinalVolBase == RMul(inputs.final_vol_val, VOLUME_CONVERSIONS[inputs.final_vol_unit])

\* the ranges in their order: 1 upper sparse, 2 dense, 3 lower sparse
RangeCount(r) ==
    CASE r = 1 -> inputs.num_sparse_upper
      [] r = 2 -> inputs.num_dense
      [] r = 3 -> inputs.num_sparse_lower

RangeFactor(r) == IF r = 2 THEN inputs.dense_factor ELSE inputs.sparse_factor

\* the number of the first point of range r
RangeFirst(r) ==
    CASE r = 1 -> 1
      [] r = 2 -> inputs.num_sparse_upper + 1
      [] r = 3 -> inputs.num_sparse_upper + inputs.num_dense + 1

\* the range point j lies in
RangeOfPoint(j) ==
    IF j <= inputs.num_sparse_upper THEN 1
    ELSE IF j <= inputs.num_sparse_upper + inputs.num_dense THEN 2
    ELSE 3

\* the concentration the summary table lists for point j, in M
PointListed(j) == FmtValue(RowsOf("IC50_protocol_summary")[j].Formatted)

\* C4: the full point sequence is repeated division starting at the highest
\* concentration: each point is the previous point divided by the factor of the
\* previous point's range, within a range and across a range boundary alike.
C4_PointsAreRepeatedDivision ==
    (Clicked(IC50) /\ outcome.status = "ok") =>
        LET n == inputs.num_sparse_upper + inputs.num_dense + inputs.num_sparse_lower
        IN  /\ Len(RowsOf("IC50_protocol_summary")) = n
            /\ n >= 1 => PointListed(1) = IC50HighestBase
            /\ \A j \in 1..(n - 1) :
                  PointListed(j + 1) = RDiv(PointListed(j), RangeFactor(RangeOfPoint(j)))

\* all three ranges hold points, the factors differ, the points are not all 0
C4_Witness ==
    /\ Clicked(IC50) /\ outcome.status = "ok"
    /\ inputs.num_sparse_upper >= 2 /\ inputs.num_dense >= 2 /\ inputs.num_sparse_lower >= 1
    /\ inputs.sparse_factor # inputs.dense_factor
    /\ RGt(IC50HighestBase, Zero)
    /\ PointListed(inputs.num_sparse_upper + 1)
          = RDiv(PointListed(inputs.num_sparse_upper), inputs.sparse_factor)

\* the elements of Part A of the range whose first point is number f
DirectEls(f) ==
    {i \in Els("Direct dilution") : outcome.page[i].rows[1].Destination = <<"Point", f>>}

InterEls(f) ==
    {i \in Els("Step A1: Create a 1:10 Intermediate Stock") :
        outcome.page[i].rows[1].Destination = <<"1:10 Intermediate Stock", f>>}

PrepEls(f) ==
    {i \in Els("Step A2: Prepare Tube for Point") : outcome.page[i].rows[1].Destination = <<"Point", f>>}

\* the concentration of the stock that Part A prepares the tube of point f
\* from: the one shown for the main stock, or ten times the one shown for
\* the 1:10 intermediate stock made of it
SourceShown(f) ==
    IF DirectEls(f) # {}
    THEN FmtValue(outcome.page[CHOOSE i \in DirectEls(f) : TRUE].fmts[2])
    ELSE RMul(Int2R(10), FmtValue(outcome.page[CHOOSE i \in InterEls(f) : TRUE].fmts[1]))

\* the instruction that puts stock into the tube of point f
TakeRow(f) ==
    IF DirectEls(f) # {}
    THEN outcome.page[CHOOSE i \in DirectEls(f) : TRUE].rows[1]
    ELSE outcome.page[CHOOSE i \in PrepEls(f) : TRUE].rows[1]

\* the volume prepared in the first tube of range r
InitialTubeVol(r) ==
    IF RangeCount(r) > 1
    THEN RAdd(IC50FinalVolBase, RDiv(IC50FinalVolBase, RSub(RangeFactor(r), One)))
    ELSE IC50FinalVolBase

NonEmptyRanges == {r \in 1..3 : RangeCount(r) > 0}

FirstNonEmpty(r) == \A q \in NonEmptyRanges : q >= r

RECURSIVE InstructionsFrom(_)
InstructionsFrom(i) ==
    IF i > Len(outcome.page) THEN <<>>
    ELSE (IF outcome.page[i].kind = "dataframe" THEN <<>> ELSE outcome.page[i].rows)
         \o InstructionsFrom(i + 1)

\* C6: for every range with more than one point, carrying out the range's
\* protocol leaves every tube of the range holding exactly the final volume V.
C6_EveryRangeTubeHoldsFinalVolume ==
    (Clicked(IC50) /\ outcome.status = "ok") =>
        \A r \in NonEmptyRanges :
            RangeCount(r) > 1 =>
                \A j \in RangeFirst(r)..(RangeFirst(r) + RangeCount(r) - 1) :
                    Bench(InstructionsFrom(1))[<<"Point", j>>] = ToUl(IC50FinalVolBase)

\* C8: points and protocol sections are generated only when main_stock_base >
\* highest_conc_base; otherwise the planner fails with the concentration-order
\* error and produces no points and no protocol.
C8_OrderCheckedBeforeGeneration ==
    Clicked(IC50) =>
        /\ RLe(IC50MainStockBase, IC50HighestBase) =>
              outcome = Outcome("rejected", "",
                  <<El("error", "The 'Highest Concentration' must be lower than the 'Main Stock Concentration'.", <<>>)>>)
        /\ (Has("IC50_protocol_summary") \/ Has("Dilution Protocol") \/ InstructionsFrom(1) # <<>>)
              => RGt(IC50MainStockBase, IC50HighestBase)

\* main stock equal to the highest concentration
C8_Witness ==
    /\ Clicked(IC50)
    /\ IC50MainStockBase = IC50HighestBase
    /\ outcome.status = "rejected"

----------------------------------------------------------------------------
(* Stocks given in a mass/volume unit                                      *)

MassVolStock == inputs.stock_conc_unit \in DOMAIN MASS_VOL_CONVERSIONS

\* (value * the unit's mass/volume factor) / MW, in M
MassVolMolarBase ==
    RDiv(RMul(inputs.stock_conc_val, MASS_VOL_CONVERSIONS[inputs.stock_conc_unit]), inputs.mw)

\* C11: for every stock given in a mass/volume unit with MW > 0 the
\* calculators complete and compute with the molar base value
\* (value * mass/volume factor) / MW: the Dilution Master reports the factor
\* molar_base / target_base, the Serial Dilution Planner lists tube k at
\* molar_base / F^k.
C11_MassVolumeStockIsConvertedWithMW ==
    /\ (Clicked(DM) /\ MassVolStock /\ RGt(inputs.mw, Zero)) =>
          /\ outcome.status # "exception"
          /\ Has("Total Dilution Factor Needed") =>
                outcome.page[CHOOSE i \in Els("Total Dilution Factor Needed") : TRUE].vals
                    = <<RDiv(MassVolMolarBase, DMTargetBase)>>
    /\ (Clicked(SDP) /\ MassVolStock /\ RGt(inputs.mw, Zero) /\ RGt(inputs.dilution_factor, One)) =>
          /\ outcome.status = "ok"
          /\ \A k \in 1..Len(RowsOf("serial_dilution")) :
                FmtValue(RowsOf("serial_dilution")[k].Formatted)
                    = RDiv(MassVolMolarBase, PowR(inputs.dilution_factor, k))

\* the run ended with the missing-molecular-weight error and nothing else
DMMissingMWError ==
    outcome = Outcome("rejected", "",
        <<El("error", "Please provide a valid Molecular Weight (>0) for the liquid stock.", <<>>)>>)

\* C12: when the stock unit is a mass/volume unit and the molecular weight is
\* <= 0, Calculate Dilution fails with the missing-molecular-weight error
\* before the stock is converted, and the page shows no result.
C12_MissingMWIsRejectedBeforeConversion ==
    (Clicked(DM) /\ MassVolStock /\ RLe(inputs.mw, Zero)) => DMMissingMWError

\* stock 1 mg/mL with MW 0
C12_Witness ==
    /\ Clicked(DM) /\ inputs.stock_conc_unit = "mg/mL" /\ inputs.mw = Zero
    /\ DMMissingMWError

DMDilutionFactor == RDiv(DMStockBase, DMTargetBase)

\* the rows of the table that belong to the dilution step (a solid stock puts
\* its two preparation rows before them)
DMDilutionRows ==
    LET rows == RowsOf("dilution_calculation")
    IN  SubSeq(rows, (IF inputs.stock_form = "Solid" THEN 3 ELSE 1), Len(rows))

\* the factor by which a stage dilutes: the volume made over the volume taken
StageFactor(take, add) == RDiv(RAdd(take.Amount, add.Amount), take.Amount)

\* C13: when dilution_factor exceeds 100 the calculator emits a two-stage
\* protocol with first-stage factor 100 and second-stage factor
\* dilution_factor / 100; the stage factors multiply to dilution_factor, so the
\* final tube is at the target concentration.  When dilution_factor is at most
\* 100 it emits the direct one-step protocol.
C13_TwoStageAboveThreshold ==
    (Clicked(DM) /\ outcome.status = "ok") =>
        LET rows == DMDilutionRows
        IN  IF RGt(DMDilutionFactor, Int2R(100))
            THEN /\ Len(rows) = 4
                 /\ rows[1].Verb = "Transfer" /\ rows[1].Source = <<"Main Stock", 0>>
                 /\ rows[1].Destination = <<"Intermediate Tube", 0>>
                 /\ rows[2].Verb = "Add" /\ rows[2].Destination = <<"Intermediate Tube", 0>>
                 /\ rows[3].Verb = "Transfer" /\ rows[3].Source = <<"Intermediate Stock", 0>>
                 /\ rows[3].Destination = <<"Final Tube", 0>>
                 /\ rows[4].Verb = "Add" /\ rows[4].Destination = <<"Final Tube", 0>>
                 /\ StageFactor(rows[1], rows[2]) = Int2R(100)
                 /\ StageFactor(rows[3], rows[4]) = RDiv(DMDilutionFactor, Int2R(100))
                 /\ RMul(StageFactor(rows[1], rows[2]), StageFactor(rows[3], rows[4])) = DMDilutionFactor
                 /\ RDiv(RDiv(DMStockBase, StageFactor(rows[1], rows[2])), StageFactor(rows[3], rows[4]))
                       = DMTargetBase
            ELSE /\ Len(rows) = 2
                 /\ DMDirectVolumesReported
                 /\ ~Has("intermediate stock") /\ ~Has("Large dilution factor detected")

\* stock 1 mM, target 10 nM: factor 100000 in stages of 100 and 1000
C13_Witness ==
    /\ Clicked(DM) /\ outcome.status = "ok"
    /\ DMDilutionFactor = Int2R(100000)
    /\ Has("Large dilution factor detected")
    /\ StageFactor(DMDilutionRows[3], DMDilutionRows[4]) = Int2R(1000)

\* what the emitted protocol puts into the final tube, in uL
DMIntoFinalTube == Bench(DMDilutionRows)[<<"Final Tube", 0>>]

\* C14: in every protocol the Dilution Master emits, direct or two-stage, the
\* volume transferred into the final tube plus the diluent volume added to the
\* final tube equals final_volume_base.
C14_FinalTubeVolumesSumToFinalVolume ==
    (Clicked(DM) /\ outcome.status = "ok") =>
        LET rows == DMDilutionRows
            n    == Len(rows)
        IN  /\ n >= 2
            /\ rows[n - 1].Verb = "Transfer" /\ rows[n - 1].Destination = <<"Final Tube", 0>>
            /\ rows[n].Verb = "Add" /\ rows[n].Destination = <<"Final Tube", 0>>
            /\ RAdd(rows[n - 1].Amount, rows[n].Amount) = ToUl(DMFinalVolBase)
            /\ DMIntoFinalTube = ToUl(DMFinalVolBase)

\* a two-stage protocol for a final volume of 1 L: 1000000 uL in the final tube
C14_Witness ==
    /\ Clicked(DM) /\ outcome.status = "ok"
    /\ Len(DMDilutionRows) = 4
    /\ inputs.final_vol_unit = "L"
    /\ RGt(DMDilutionRows[3].Amount, Zero)
    /\ DMIntoFinalTube = Int2R(1000000)

\* the run ended with one of the two messages for a non-positive parameter
DMInvalidParameterError ==
    /\ outcome.status = "rejected"
    /\ outcome.page # <<>>
    /\ outcome.page[Len(outcome.page)] \in
          { El("warning", "Concentrations and volume must be > 0.", <<>>),
            El("warning", "MW, stock concentration, and volume must be > 0.", <<>>) }

\* C15: a request in which the stock concentration, the target concentration
\* or the final volume is non-positive (stock = target = 0 included) is
\* rejected with the invalid-parameter error, not with the
\* concentration-order error.
C15_NonPositiveIsInvalidParameter ==
    (Clicked(DM) /\ DMMolar
       /\ (RLe(DMStockBase, Zero) \/ RLe(DMTargetBase, Zero) \/ RLe(DMFinalVolBase, Zero))) =>
        (DMInvalidParameterError /\ ~DMOrderError)

RangeTitle(r) ==
    CASE r = 1 -> "Upper Sparse Range"
      [] r = 2 -> "Dense Range"
      [] r = 3 -> "Lower Sparse Range"

\* the concentration range r starts at, or would start at were it not empty:
\* the highest concentration divided by the factor of every point before it
RECURSIVE RangeStart(_)
RangeStart(r) ==
    IF r = 1 THEN IC50HighestBase
    ELSE RDiv(RangeStart(r - 1), PowR(RangeFactor(r - 1), RangeCount(r - 1)))

\* q is the next non-empty range after r
NextNonEmpty(r, q) ==
    /\ q > r
    /\ RangeCount(q) > 0
    /\ \A m \in (r + 1)..(q - 1) : RangeCount(m) = 0

\* C16: a range with point_count = 0 contributes no points and no protocol
\* section, the remaining ranges are still generated, and the next non-empty
\* range starts at the unchanged running concentration: the one the skipped
\* range would have started at.
C16_EmptyRangeIsSkipped ==
    (Clicked(IC50) /\ RGt(IC50MainStockBase, IC50HighestBase)) =>
        /\ outcome.status = "ok"
        /\ Len(RowsOf("IC50_protocol_summary"))
              = inputs.num_sparse_upper + inputs.num_dense + inputs.num_sparse_lower
        /\ \A r \in 1..3 :
              /\ Has(RangeTitle(r)) <=> RangeCount(r) > 0
              /\ RangeCount(r) = 0 =>
                    \A q \in 1..3 :
                        NextNonEmpty(r, q) => PointListed(RangeFirst(q)) = RangeStart(r)

\* upper sparse and lower sparse hold points, dense is empty
C16_Witness ==
    /\ Clicked(IC50) /\ outcome.status = "ok"
    /\ inputs.num_sparse_upper > 0 /\ inputs.num_dense = 0 /\ inputs.num_sparse_lower > 0
    /\ RGt(IC50HighestBase, Zero)
    /\ ~Has("Dense Range") /\ Has("Lower Sparse Range")
    /\ PointListed(RangeFirst(3)) = RDiv(PointListed(RangeFirst(3) - 1), inputs.sparse_factor)

\* upper sparse 2 points at factor 10, dense 3 points at factor 2, highest 10 uM
IC50ExampleRequest ==
    /\ inputs.num_sparse_upper = 2 /\ inputs.sparse_factor = Int2R(10)
    /\ inputs.num_dense = 3 /\ inputs.dense_factor = Int2R(2)
    /\ inputs.highest_conc_val = R(10, 1) /\ inputs.highest_conc_unit = "uM"

\* C17 as stated: in the example the first dense point (point 3) is
\* 10/10/10/2 = 0.05 uM.
C17_Original_FirstDensePointIsHalfOfTenth ==
    (Clicked(IC50) /\ outcome.status = "ok" /\ IC50ExampleRequest) =>
        PointListed(3) = Mk(5, 1, 0 - 8)

\* C17 amended: in the example the first dense point (point 3) is
\* 10/10/10 = 0.1 uM, shown as 100 nM: the last upper sparse point divided by
\* the sparse factor; the dense factor first applies from point 3 to point 4
\* (0.05 uM).
C17_FirstDensePointIsTenthOfLastSparse ==
    (Clicked(IC50) /\ outcome.status = "ok" /\ IC50ExampleRequest) =>
        /\ PointListed(1) = Mk(1, 1, 0 - 5)
        /\ PointListed(2) = Mk(1, 1, 0 - 6)
        /\ PointListed(3) = Mk(1, 1, 0 - 7)
        /\ RowsOf("IC50_protocol_summary")[3].Formatted.mag = Int2R(100)
        /\ RowsOf("IC50_protocol_summary")[3].Formatted.unit = "nM"
        /\ PointListed(4) = Mk(5, 1, 0 - 8)

C17_Witness ==
    /\ Clicked(IC50) /\ outcome.status = "ok" /\ IC50ExampleRequest
    /\ Len(RowsOf("IC50_protocol_summary")) >= 5
    /\ PointListed(3) = RDiv(PointListed(2), Int2R(10))

----------------------------------------------------------------------------
(* Serial Dilution Planner: the volumes reported                           *)

\* the sum of the amounts of the "Add" rows among rows[k..]
RECURSIVE DiluentAdded(_, _)
DiluentAdded(rows, k) ==
    IF k > Len(rows) THEN Zero
    ELSE RAdd((IF rows[k].Verb = "Add" THEN rows[k].Amount ELSE Zero), DiluentAdded(rows, k + 1))

\* C18: for V > 0, F > 1 and N >= 1 the planner reports transfer_vol =
\* V / (F - 1), stock for tube 1 = (V + transfer_vol) / F, diluent for tubes
\* 1..N-1 = (V + transfer_vol) - stock for tube 1, diluent for tube N =
\* V - V/F and total diluent = diluent_for_tube1 * (N - 1) + diluent_for_last
\* (diluent_for_last alone when N = 1), which is the sum of the diluent volumes
\* the action table adds to the N tubes.
C18_ReportedVolumesFollowTheFormulas ==
    (Clicked(SDP) /\ RGt(inputs.dilution_factor, One) /\ RGt(SDPFinalVolUl, Zero)) =>
        LET V        == SDPFinalVolUl
            F        == inputs.dilution_factor
            N        == inputs.num_dilutions
            transfer == RDiv(V, RSub(F, One))
            stock1   == RDiv(RAdd(V, transfer), F)
            d1       == RSub(RAdd(V, transfer), stock1)
            dlast    == RSub(V, RDiv(V, F))
            total    == IF N > 1 THEN RAdd(RMul(d1, Int2R(N - 1)), dlast) ELSE dlast
            rows     == RowsOf("serial_dilution_protocol")
        IN  /\ Has("serial_dilution_protocol")
            /\ Has("Total Stock Needed | Total Solvent Needed")
            /\ outcome.page[CHOOSE i \in Els("Total Stock Needed | Total Solvent Needed") : TRUE].vals
                  = <<stock1, total>>
            /\ Len(rows) = 2 * N
            /\ \A i \in 1..(N - 1) :
                  /\ rows[i].Verb = "Add" /\ rows[i].Destination = <<"Tube", i>>
                  /\ rows[i].Amount = d1
            /\ rows[N].Verb = "Add" /\ rows[N].Destination = <<"Tube", N>>
            /\ rows[N].Amount = dlast
            /\ rows[N + 1].Verb = "Transfer" /\ rows[N + 1].Source = <<"Main Stock", 0>>
            /\ rows[N + 1].Destination = <<"Tube", 1>> /\ rows[N + 1].Amount = stock1
            /\ \A i \in 1..(N - 1) :
                  /\ rows[N + 1 + i].Verb = "Transfer"
                  /\ rows[N + 1 + i].Source = <<"Tube", i>>
                  /\ rows[N + 1 + i].Destination = <<"Tube", i + 1>>
                  /\ rows[N + 1 + i].Amount = transfer
            /\ DiluentAdded(rows, 1) = total

\* V = 1000 uL, F = 2, N = 3: transfers of 1000 uL, 1000 uL of stock, and
\* 1000 + 1000 + 500 uL of diluent
C18_Witness ==
    /\ Clicked(SDP)
    /\ inputs.dilution_factor = Int2R(2) /\ inputs.num_dilutions = 3
    /\ SDPFinalVolUl = Int2R(1000)
    /\ Has("serial_dilution_protocol")
    /\ DiluentAdded(RowsOf("serial_dilution_protocol"), 1) = Int2R(2500)
    /\ outcome.page[CHOOSE i \in Els("Total Stock Needed | Total Solvent Needed") : TRUE].vals
          = <<Int2R(1000), Int2R(2500)>>

----------------------------------------------------------------------------
(* src/common.py: the formatters on their own.  A concentration in base    *)
(* units is chosen, then one of the two formatters is applied to it.       *)

\* the values run from 10^-MaxDecades to 10^1, with three mantissas
MaxDecades == 14

FmtInputs ==
    {Zero} \cup {Mk(m, 1, e) : m \in {1, 2, 5}, e \in (0 - MaxDecades)..1}

FmtInit ==
    /\ tab \in {"format_molarity", "format_mass_conc"}
    /\ inputs \in [v : FmtInputs]
    /\ outcome = Idle
    /\ NoReagentManager

\* format_molarity(v)
FormatMolarity ==
    /\ tab = "format_molarity"
    /\ outcome = Idle
    /\ outcome' = Outcome("ok", "", <<ElF("text", "formatted", <<>>, <<format_molarity(inputs.v)>>, <<>>)>>)
    /\ UNCHANGED <<tab, inputs, elsewhere>>

\* format_mass_conc(v)
FormatMassConc ==
    /\ tab = "format_mass_conc"
    /\ outcome = Idle
    /\ outcome' = Outcome("ok", "", <<ElF("text", "formatted", <<>>, <<format_mass_conc(inputs.v)>>, <<>>)>>)
    /\ UNCHANGED <<tab, inputs, elsewhere>>

FmtNext == FormatMolarity \/ FormatMassConc

FormatterSpec == FmtInit /\ [][FmtNext]_vars

\* the unit scales of a formatter, from the largest to the finest
FmtScales ==
    IF tab = "format_molarity" THEN <<"M", "mM", "uM", "nM", "pM">>
    ELSE <<"g/L", "mg/L", "ug/L", "ng/L", "pg/L">>

\* the value of one unit of scale k in base units: 1, 1e-3, .. 1e-12
ScaleOf(k) == Mk(1, 1, 0 - 3 * (k - 1))

Formatted == tab \in {"format_molarity", "format_mass_conc"} /\ outcome.status = "ok"

FmtOut == outcome.page[1].fmts[1]

\* the scale of the unit shown
FmtScaleShown == CHOOSE k \in 1..5 : FmtScales[k] = FmtOut.unit

\* in scale k the magnitude of v is at least 1, and in no larger scale it is
LargestScaleAtLeastOne(v, k) ==
    /\ RGe(RDiv(v, ScaleOf(k)), One)
    /\ \A j \in 1..(k - 1) : RLt(RDiv(v, ScaleOf(j)), One)

\* C19 as stated: for every value v > 0 the formatters select the largest unit
\* scale in which the displayed magnitude is >= 1; the displayed magnitude is
\* >= 1 for every v > 0.
C19_Original_MagnitudeAtLeastOneForEveryPositiveValue ==
    (Formatted /\ RGt(inputs.v, Zero)) =>
        /\ FmtOut.unit \in {FmtScales[k] : k \in 1..5}
        /\ FmtOut.mag = RDiv(inputs.v, ScaleOf(FmtScaleShown))
        /\ LargestScaleAtLeastOne(inputs.v, FmtScaleShown)
        /\ RGe(FmtOut.mag, One)

\* C19 amended: for every value v >= 1e-12 base units the formatters select the
\* largest unit scale in which the displayed magnitude is >= 1, and the
\* displayed magnitude is >= 1; for 0 < v < 1e-12 no scale does, the finest
\* scale (pM, pg/L) is selected and the displayed magnitude is below 1.
C19_LargestScaleDownToTheFinest ==
    (Formatted /\ RGt(inputs.v, Zero)) =>
        /\ FmtOut.unit \in {FmtScales[k] : k \in 1..5}
        /\ FmtOut.mag = RDiv(inputs.v, ScaleOf(FmtScaleShown))
        /\ IF RGe(inputs.v, ScaleOf(5))
           THEN LargestScaleAtLeastOne(inputs.v, FmtScaleShown) /\ RGe(FmtOut.mag, One)
           ELSE FmtScaleShown = 5 /\ RLt(FmtOut.mag, One)

\* 1e-3 g/L is shown as 1 mg/L
C19_Witness ==
    /\ Formatted /\ tab = "format_mass_conc"
    /\ inputs.v = Mk(1, 1, 0 - 3)
    /\ FmtOut.unit = "mg/L" /\ FmtOut.mag = One

\* format_molarity was applied to exactly 0
FormattedZeroMolar == Formatted /\ tab = "format_molarity" /\ inputs.v = Zero

\* C20 as stated: formatting a molar value of exactly 0 returns "0 M": the
\* digit zero, one space, the base unit.
C20_Original_ZeroIsZeroSpaceM ==
    FormattedZeroMolar => FmtOut = Fmt(Zero, " ", "M")

\* C20 amended: formatting a molar value of exactly 0 returns "0M": the digit
\* zero followed at once by the base unit, without a space.
C20_ZeroIsZeroM ==
    FormattedZeroMolar => FmtOut = Fmt(Zero, "", "M")

C20_Witness ==
    /\ FormattedZeroMolar
    /\ FmtOut.mag = Zero /\ FmtOut.unit = "M"

----------------------------------------------------------------------------
(* IC50 Planner: the 1:10 intermediate stock                               *)

\* the stock volume, in L, that preparing the first tube of range r directly
\* from the main stock takes: range_start_conc * initial_tube_vol / source_conc
DirectStockVol(r) == RDiv(RMul(RangeStart(r), InitialTubeVol(r)), IC50MainStockBase)

\* the direct volume is below the minimum pipettable volume of 1 uL
BelowPipetteMinimum(r) == RLt(ToUl(DirectStockVol(r)), One)

\* the instruction that adds solvent to the first tube of a range, that tube
\* being the tube of point f
SolventRow(f) ==
    IF DirectEls(f) # {}
    THEN outcome.page[CHOOSE i \in DirectEls(f) : TRUE].rows[2]
    ELSE outcome.page[CHOOSE i \in PrepEls(f) : TRUE].rows[2]

\* C23: for the first tube of every non-empty range the 1:10 intermediate
\* stock step is inserted exactly when the direct stock volume
\* range_start_conc * initial_tube_vol / source_conc is below 1 uL; the volume
\* then taken from the intermediate stock is range_start_conc *
\* initial_tube_vol / (source_conc / 10), ten times the direct volume;
\* otherwise the direct volumes are emitted.
C23_IntermediateExactlyBelowOneMicrolitre ==
    (Clicked(IC50) /\ outcome.status = "ok") =>
        \A r \in NonEmptyRanges :
            LET f      == RangeFirst(r)
                start  == RangeStart(r)
                tube   == InitialTubeVol(r)
                direct == RDiv(RMul(start, tube), IC50MainStockBase)
                tenth  == RDiv(IC50MainStockBase, Int2R(10))
                inter  == RDiv(RMul(start, tube), tenth)
                take   == TakeRow(f)
            IN  IF RLt(ToUl(direct), One)
                THEN /\ InterEls(f) # {} /\ PrepEls(f) # {} /\ DirectEls(f) = {}
                     /\ take.Source = <<"1:10 Intermediate Stock", f>>
                     /\ take.Amount = ToUl(inter)
                     /\ take.Amount = RMul(Int2R(10), ToUl(direct))
                     /\ SolventRow(f).Amount = ToUl(RSub(tube, inter))
                ELSE /\ InterEls(f) = {} /\ PrepEls(f) = {} /\ DirectEls(f) # {}
                     /\ take.Source = <<"Main Stock", 0>>
                     /\ take.Amount = ToUl(direct)
                     /\ SolventRow(f).Amount = ToUl(RSub(tube, direct))

\* one page with both cases: the first tube of the upper sparse range takes
\* exactly 1 uL of main stock, so it is made directly, and the first tube of
\* the dense range would take less, so it is made from the intermediate stock
C23_Witness ==
    /\ Clicked(IC50) /\ outcome.status = "ok"
    /\ inputs.num_sparse_upper = 1 /\ inputs.num_dense >= 1
    /\ ToUl(DirectStockVol(1)) = One
    /\ DirectEls(1) # {} /\ TakeRow(1).Amount = One
    /\ RGt(DirectStockVol(2), Zero) /\ BelowPipetteMinimum(2)
    /\ InterEls(2) # {}
    /\ TakeRow(2).Amount = RMul(Int2R(10), ToUl(DirectStockVol(2)))

----------------------------------------------------------------------------
(* Ideal mixing: a vessel holds a liquid volume and an amount of solute,   *)
(* its concentration is the amount divided by the volume.                  *)

\* the concentration of what an instruction draws: the main stock at
\* stock_conc, pure solvent, or the present content of a tube
DrawnConc(st, r, stock_conc) ==
    IF r.Source[1] = "Main Stock" THEN stock_conc
    ELSE IF r.Source[1] = "solvent" THEN Zero
    ELSE IF st[r.Source].vol = Zero THEN Zero
    ELSE RDiv(st[r.Source].amt, st[r.Source].vol)

\* one instruction carried out: Amount of liquid moves from Source to
\* Destination and takes its share of the solute along
MixStep(st, r, stock_conc) ==
    LET moved == RMul(r.Amount, DrawnConc(st, r, stock_conc))
    IN  [x \in DOMAIN st |->
            IF x = r.Source /\ x # r.Destination
            THEN [vol |-> RSub(st[x].vol, r.Amount), amt |-> RSub(st[x].amt, moved)]
            ELSE IF x = r.Destination /\ x # r.Source
            THEN [vol |-> RAdd(st[x].vol, r.Amount), amt |-> RAdd(st[x].amt, moved)]
            ELSE st[x]]

RECURSIVE MixFrom(_, _, _, _)
MixFrom(rows, k, st, stock_conc) ==
    IF k > Len(rows) THEN st ELSE MixFrom(rows, k + 1, MixStep(st, rows[k], stock_conc), stock_conc)

\* the vessels after the instructions, all starting empty
Mixed(rows, stock_conc) ==
    MixFrom(rows, 1,
            [x \in {rows[k].Source : k \in 1..Len(rows)} \cup {rows[k].Destination : k \in 1..Len(rows)}
                |-> [vol |-> Zero, amt |-> Zero]],
            stock_conc)

\* the concentration in vessel x; taking liquid out of a tube leaves its
\* concentration as it was when the tube received its stock or transfer
ConcIn(st, x) == RDiv(st[x].amt, st[x].vol)

\* C24: with the Serial Dilution Planner's protocol carried out as ideal
\* mixing, the concentration in tube k, once it has received its stock or its
\* transfer, is C_stock / F^k, the value the concentration summary lists for
\* tube k, for every k in 1..N, the last tube and N = 1 included.
C24_MixedConcentrationsAreTheListedOnes ==
    (Clicked(SDP) /\ outcome.status = "ok" /\ RGt(SDPFinalVolUl, Zero)) =>
        LET st == Mixed(SDPInstructions, inputs.stock_conc_val)
        IN  \A k \in 1..inputs.num_dilutions :
                /\ st[<<"Tube", k>>].vol # Zero
                /\ ConcIn(st, <<"Tube", k>>) = RDiv(inputs.stock_conc_val, PowR(inputs.dilution_factor, k))
                /\ ConcIn(st, <<"Tube", k>>) = RowsOf("serial_dilution")[k].Raw.val


----------------------------------------------------------------------------
(* IC50 Planner: the concentrations the protocol produces                  *)

\* C25: with a range's protocol carried out as ideal mixing (the first tube
\* made from the stated source, every later tube holding the listed solvent
\* and receiving the transfer volume from the tube before it), the
\* concentration in the tube of point j is the one the final summary table
\* lists for point j, for every range with more than one point and every
\* factor > 1.
C25_RangeTubesHoldTheListedConcentrations ==
    (Clicked(IC50) /\ outcome.status = "ok" /\ RGt(IC50FinalVolBase, Zero)) =>
        LET st == Mixed(InstructionsFrom(1), IC50MainStockBase)
        IN  \A r \in NonEmptyRanges :
                RangeCount(r) > 1 =>
                    \A j \in RangeFirst(r)..(RangeFirst(r) + RangeCount(r) - 1) :
                        /\ st[<<"Point", j>>].vol # Zero
                        /\ ConcIn(st, <<"Point", j>>) = PointListed(j)


\* C26: every stock volume and every solvent volume the IC50 planner emits is
\* non-negative, and no stock volume exceeds the volume of the tube being
\* prepared, for every accepted input (main stock > highest concentration,
\* final volume >= 0, factors > 1), the volumes recomputed against the 1:10
\* intermediate stock included.
C26_VolumesAreNonNegativeAndFitTheTube ==
    (Clicked(IC50) /\ outcome.status = "ok") =>
        /\ \A k \in 1..Len(InstructionsFrom(1)) : RGe(InstructionsFrom(1)[k].Amount, Zero)
        /\ \A r \in NonEmptyRanges :
              RLe(TakeRow(RangeFirst(r)).Amount, ToUl(InitialTubeVol(r)))


\* C27: every stock volume the IC50 planner instructs the user to pipette
\* into the first tube of a range, taken directly from the source stock or
\* from the 1:10 intermediate stock, is at least the 1 uL minimum pipettable
\* volume.
C27_FirstTubeStockVolumeAtLeastOneMicrolitre ==
    (Clicked(IC50) /\ outcome.status = "ok") =>
        \A r \in NonEmptyRanges : RGe(TakeRow(RangeFirst(r)).Amount, One)

----------------------------------------------------------------------------
(* Dilution Master: the intermediate stock of the two-stage protocol       *)

\* the volume of intermediate stock stage 1 prepares, in uL
DMIntermediatePrepared == RAdd(DMDilutionRows[1].Amount, DMDilutionRows[2].Amount)

\* C28: in the two-stage branch the volume of intermediate stock transferred
\* into the final tube, final_volume / (dilution_factor / 100), never exceeds
\* the fixed 1 mL of intermediate stock that stage 1 prepares, for every
\* accepted request with dilution_factor > 100.
C28_IntermediateStockSuffices ==
    (Clicked(DM) /\ outcome.status = "ok" /\ RGt(DMDilutionFactor, Int2R(100))) =>
        /\ DMIntermediatePrepared = Int2R(1000)
        /\ DMDilutionRows[3].Source = <<"Intermediate Stock", 0>>
        /\ DMDilutionRows[3].Amount
              = ToUl(RDiv(DMFinalVolBase, RDiv(DMDilutionFactor, Int2R(100))))
        /\ RLe(DMDilutionRows[3].Amount, DMIntermediatePrepared)


----------------------------------------------------------------------------
(* The result of an earlier calculation.  A second specification follows   *)
(* one calculator page through the reruns of its script and remembers,     *)
(* beside what the page shows, what its last successful calculation        *)
(* displayed.                                                              *)

\* the widgets the user changes between two calculations
ChangedWidgets ==
    IF tab = DM THEN {"stock_conc_val", "target_conc_val", "final_vol_val"}
    ELSE {"dilution_factor", "final_vol_val"}

PageWidgets == IF tab = DM THEN DMWidgets ELSE SDPWidgets

RerunInit ==
    /\ tab \in {DM, SDP}
    /\ inputs = (IF tab = DM THEN DMDefaults("Liquid") ELSE SDPDefaults)
    /\ outcome = Idle
    /\ NoReagentManager

\* a widget changes: the script reruns, the button reads False and nothing is
\* emitted below it
RerunOnWidget ==
    /\ \E f \in ChangedWidgets : \E v \in PageWidgets[f] :
        /\ v # inputs[f]
        /\ inputs' = [inputs EXCEPT ![f] = v]
    /\ outcome' = Idle
    /\ UNCHANGED <<tab, elsewhere>>

\* the button is clicked: the script reruns and the handler emits
RerunOnButton ==
    /\ outcome' = (IF tab = DM THEN DilutionMasterCalculate(inputs) ELSE SerialDilutionPlan(inputs))
    /\ earlier' = (IF outcome'.status = "ok" THEN outcome'.page ELSE earlier)
    /\ UNCHANGED <<tab, inputs, reagent_file, session>>

RerunNext == RerunOnWidget \/ RerunOnButton

RerunSpec == RerunInit /\ [][RerunNext]_vars

\* every element of a result is on the page
Displays(page, result) ==
    \A i \in 1..Len(result) : \E j \in 1..Len(page) : page[j] = result[i]

\* C21: when a calculation is rejected by a precondition check, the result
\* displayed by the previous successful calculation of that calculator is
\* left untouched: after a successful Calculate followed by a rejected
\* Calculate the earlier result is still the displayed result.
C21_RejectionLeavesEarlierResultDisplayed ==
    (outcome.status = "rejected" /\ earlier # <<>>) => Displays(outcome.page, earlier)


----------------------------------------------------------------------------
(* tabs/05 Reagent Manager.  A third specification: one or two browser     *)
(* sessions show the page; every click reruns the page script in the       *)
(* session's own thread.  The script reads the whole file (line 13) and,   *)
(* when the handler accepts, writes the whole file (save_reagents): the    *)
(* file is opened for writing, which empties it, and the text is written   *)
(* when it is closed.  Nothing locks the file, so the steps of two         *)
(* sessions interleave at the file operations.                             *)

CorruptFile == [state |-> "corrupt", dict |-> <<>>]

\* what a run of the script that goes on to save holds between its file operations
Running(pc, reagents, loaded, op, message) ==
    [pc |-> pc, reagents |-> reagents, loaded |-> loaded, op |-> op, message |-> message]

ReagentInit ==
    /\ tab = "Reagent Manager"
    /\ inputs = <<>>
    /\ outcome = Idle
    /\ earlier = <<>>
    /\ reagent_file \in StoredFiles
    /\ \E open \in {{"s1"}, Sessions} :
          session = [s \in Sessions |->
                        IF s \in open THEN Shown(load_reagents(reagent_file), NoOp, "") ELSE Closed]

\* the run of a click: line 13 has read the file and the handler has answered
AfterHandler(s, loaded, op, r) ==
    /\ session' = [session EXCEPT ![s] =
                      IF r.saved
                      THEN Running("save", r.reagents, loaded, op, r.message)
                      ELSE Shown(loaded, op, r.message)]
    /\ UNCHANGED <<tab, inputs, outcome, earlier, reagent_file>>

\* lines 13-29: the form is submitted
ClickSaveNewReagent ==
    \E s \in Sessions : \E in \in NewReagentInputs :
        /\ session[s].pc = "shown"
        /\ LET reagents == load_reagents(reagent_file)
           IN  AfterHandler(s, reagents,
                            [kind |-> "add", name |-> in.name, mw |-> in.mw, manufacturer |-> in.manufacturer],
                            SaveNewReagent(reagents, in.name, in.mw, in.manufacturer))

\* the answer of a run whose select box no longer offers the selected name
\* (another session deleted it): the selection falls back to "", nothing is saved
StaleSelection(reagents) == [saved |-> FALSE, message |-> "", reagents |-> reagents]

\* lines 13, 44-53: a listed reagent is selected, the two widgets are set, the
\* button is clicked
ClickUpdateReagent ==
    \E s \in Sessions : \E in \in EditInputs :
        /\ session[s].pc = "shown"
        /\ \E reagent_to_edit \in Keys(session[s].reagents) :
            LET reagents == load_reagents(reagent_file)
            IN  IF reagent_to_edit \in Keys(reagents)
                THEN AfterHandler(s, reagents,
                                  [kind |-> "update", name |-> reagent_to_edit,
                                   mw |-> in.new_mw, manufacturer |-> in.new_mfr],
                                  UpdateReagent(reagents, reagent_to_edit, in.new_mw, in.new_mfr))
                ELSE AfterHandler(s, reagents, NoOp, StaleSelection(reagents))

\* lines 13, 56-61
ClickDeleteReagent ==
    \E s \in Sessions :
        /\ session[s].pc = "shown"
        /\ \E reagent_to_delete \in Keys(session[s].reagents) :
            LET reagents == load_reagents(reagent_file)
            IN  IF reagent_to_delete \in Keys(reagents)
                THEN AfterHandler(s, reagents, [kind |-> "delete", name |-> reagent_to_delete],
                                  DeleteReagent(reagents, reagent_to_delete))
                ELSE AfterHandler(s, reagents, NoOp, StaleSelection(reagents))

\* common.py line 39: open(REAGENT_FILE, 'w') empties the file; a text another
\* session writes from now on lies under what this session will write
OpenForWriting ==
    \E s \in Sessions :
        /\ session[s].pc = "save"
        /\ reagent_file' = EmptyFile
        /\ session' = [session EXCEPT ![s].pc = "dump"]
        /\ UNCHANGED <<tab, inputs, outcome, earlier>>

\* common.py line 40 and the end of the with block: the text is written from
\* the start of the file.  Over a different text written since this session
\* opened the file it replaces only as many characters as it has: when it is
\* the shorter one the rest of the other text stays and the file is no JSON.
Dump ==
    \E s \in Sessions :
        /\ session[s].pc = "dump"
        /\ \/ reagent_file' = save_reagents(session[s].reagents)
           \/ /\ reagent_file.state \in {"json", "corrupt"}
              /\ reagent_file # save_reagents(session[s].reagents)
              /\ reagent_file' = CorruptFile
        /\ session' = [session EXCEPT ![s].pc = "rerun"]
        /\ UNCHANGED <<tab, inputs, outcome, earlier>>

\* st.rerun(): the script runs again, reads the file and shows the list
RerunAfterSave ==
    \E s \in Sessions :
        /\ session[s].pc = "rerun"
        /\ session' = [session EXCEPT ![s] = Shown(load_reagents(reagent_file), NoOp, "")]
        /\ UNCHANGED <<tab, inputs, outcome, earlier, reagent_file>>

ReagentNext ==
    \/ ClickSaveNewReagent
    \/ ClickUpdateReagent
    \/ ClickDeleteReagent
    \/ OpenForWriting
    \/ Dump
    \/ RerunAfterSave

ReagentSpec == ReagentInit /\ [][ReagentNext]_vars


\* only the first session has the page open
OneSession == session["s2"].pc = "closed"

\* the records a reader finds in the store
Stored == load_reagents(reagent_file)

UniqueNames(d) == \A i, j \in 1..Len(d) : d[i].name = d[j].name => i = j

\* the run of the last click: its request, and what it read at line 13
Request(s) == session[s].op

\* the run has written the file and not yet rerun
JustSaved(s, kind) == session[s].pc = "rerun" /\ Request(s).kind = kind

\* C22: the reagent name is a unique key.  Saving a new reagent whose name is
\* already in the store, or is empty, is rejected and leaves the stored
\* records unchanged; after any sequence of add, update and delete actions in
\* one session every name maps to exactly one record, and a deleted name is
\* absent.
C22_NameIsAUniqueKey ==
    OneSession =>
        LET s == session["s1"]
        IN  /\ UniqueNames(Stored)
            /\ UniqueNames(s.reagents)
            /\ (s.op.kind = "add" /\ (s.op.name = "" \/ s.op.name \in Keys(s.loaded))) =>
                  /\ s.pc = "shown"
                  /\ s.message \in {"Reagent Name and a valid MW are required.", "Reagent already exists."}
                  /\ Stored = s.loaded
            /\ JustSaved("s1", "add") =>
                  /\ s.op.name \notin Keys(s.loaded)
                  /\ Keys(Stored) = Keys(s.loaded) \cup {s.op.name}
                  /\ Len(Stored) = Len(s.loaded) + 1
            /\ JustSaved("s1", "update") => Keys(Stored) = Keys(s.loaded) /\ Len(Stored) = Len(s.loaded)
            /\ JustSaved("s1", "delete") =>
                  /\ s.op.name \notin Keys(Stored)
                  /\ Keys(Stored) = Keys(s.loaded) \ {s.op.name}

\* a reagent was added, and a second Save of the same name, with a valid MW,
\* was rejected: the store still holds the two records it held
C22_Witness ==
    /\ OneSession
    /\ Request("s1").kind = "add" /\ Request("s1").name = "B" /\ Request("s1").mw > 0
    /\ session["s1"].pc = "shown"
    /\ session["s1"].message = "Reagent already exists."
    /\ Keys(Stored) = {"A", "B"} /\ Len(Stored) = 2
    /\ DictGet(Stored, "B") = [mw |-> 100, manufacturer |-> ""]

\* both sessions have saved a new reagent, under different names, and neither
\* has rerun yet
BothSaved ==
    /\ JustSaved("s1", "add") /\ JustSaved("s2", "add")
    /\ Request("s1").name # Request("s2").name

\* C29: no saved reagent is lost to an interleaved read-modify-write: when two
\* sessions each load the reagent store and then each save a new reagent with
\* a distinct name, in any interleaving of their whole-file reads and
\* whole-file overwrites, both reagents are present in the store afterwards.
C29_BothSavedReagentsArePresent ==
    BothSaved => {Request("s1").name, Request("s2").name} \subseteq Keys(Stored)

\* the fields of a record beside the two the page edits
ExtraFields(data) == DOMAIN data \ {"mw", "manufacturer"}

\* C30: updating a reagent changes only that reagent's molecular weight and
\* manufacturer: its extra string fields and the records of all other
\* reagents are unchanged in the store; deleting a reagent removes exactly
\* that name and leaves all other records unchanged.
C30_UpdateAndDeleteTouchNothingElse ==
    OneSession =>
        LET s == session["s1"]
            n == s.op.name
        IN  /\ JustSaved("s1", "update") =>
                  /\ Keys(Stored) = Keys(s.loaded)
                  /\ \A m \in Keys(s.loaded) \ {n} : DictGet(Stored, m) = DictGet(s.loaded, m)
                  /\ DictGet(Stored, n).mw = s.op.mw
                  /\ DictGet(Stored, n).manufacturer = s.op.manufacturer
                  /\ \A k \in ExtraFields(DictGet(s.loaded, n)) :
                        /\ k \in DOMAIN DictGet(Stored, n)
                        /\ DictGet(Stored, n)[k] = DictGet(s.loaded, n)[k]
            /\ JustSaved("s1", "delete") =>
                  /\ Keys(Stored) = Keys(s.loaded) \ {n}
                  /\ \A m \in Keys(s.loaded) \ {n} : DictGet(Stored, m) = DictGet(s.loaded, m)

====
